---- MODULE Spec2Model ----
(***************************************************************************)
(* MatSelectSearchComponent (ngx-mat-select-search 4.0.2): the search      *)
(* input embedded in a MatSelect panel.  The module models                 *)
(*   - adjustScrollTopToFitActiveOptionIntoView, the viewport-fit          *)
(*     arithmetic on the panel's scrollTop (specification SpecFit);        *)
(*   - initMultipleHandling, the restoration of selected values that the   *)
(*     host drops while their options are filtered out (specification      *)
(*     Spec).                                                              *)
(* Element heights and scroll offsets are whole pixels.  Math.floor(a / b) *)
(* is a \div b (b > 0) and Math.round(a / b) is (2a + b) \div 2b, the      *)
(* rounding of halves towards +Infinity that Math.round performs.          *)
(***************************************************************************)
EXTENDS Integers, Sequences, FiniteSets

VARIABLES
    \* ---- host select (MatSelect) as seen by the component ----
    panel,                  \* matSelect.panel is rendered
    optionsLength,          \* matSelect.options.length
    scrollTop,              \* matSelect.panel.nativeElement.scrollTop
    activeItemIndex,        \* matSelect._keyManager.activeItemIndex: <<>> is null, <<n>> is n
    groupStarts,            \* indexes of the options that open an option group
    optionHeight,           \* height of the first rendered option
    searchInputHeight,      \* innerSelectSearch.nativeElement.offsetHeight
    multiple,               \* matSelect.multiple
    hasNgControl,           \* matSelect.ngControl is set
    compareById,            \* matSelect.compareWith compares ids (else identity, the default)
    refetched,              \* the application fetches values anew: equal ids, other objects
    ngControlValue,         \* matSelect.ngControl.value (matSelect.value without a control)
    optionValues,           \* matSelect.options.map(option => option.value)
    \* ---- the component ----
    matOption,              \* the component is placed inside a mat-option
    alwaysRestoreSelectedOptionsMulti,
    formControlValue,       \* _formControl.value, the filter text
    previousSelectedValues,
    initialized,            \* ngOnInit has run
    destroyed,              \* _onDestroy has emitted
    subscribedValueChanges, \* the subscription to ngControl.valueChanges exists
    errors,                 \* messages passed to console.error
    \* ---- the component's inputs ----
    noEntriesFoundLabel,    \* the label is set (not null, not empty)
    clearSearchInput,
    disableInitialFocus,
    enableClearOnEscapePressed,
    preventHomeEndKeyPropagation,
    disableScrollToActiveOnOptionsChanged,
    \* ---- the component's subscriptions and what they maintain ----
    subscriptions,          \* the subscriptions made in ngOnInit that are not ended
    matOptionDisabled,      \* matOption.disabled
    panelClass,             \* matSelect.panelClass
    matOptionClasses,       \* classes the component added to the mat-option's host element
    valueEmitted,           \* _formControl.valueChanges has emitted to _showNoEntriesFound$
    showNoEntriesFound,     \* the value _showNoEntriesFound$ emitted last (false before)
    openedChangePending,    \* openedChange emissions inside delay(1), oldest first
    optionsAssigned,        \* this._options is set (the first openedChange was handled)
    previousFirstOption,    \* <<>> is undefined, <<v>> the option with value v
    activeItemStale,        \* _keyManager.activeItem is an option that left the list
    optionsTimers,          \* pending setTimeout callbacks of the options.changes subscriber
    widthTimers,            \* pending setTimeout(() => this.updateInputWidth())
    focusTimers,            \* pending setTimeout(() => this._focus())
    inputFocused,           \* searchSelectInput has the focus
    inputWidthSet,          \* innerSelectSearch.style.width has been assigned
    \* ---- the value accessor ----
    lastExternalInputValue, \* _lastExternalInputValue: <<>> is undefined, <<v>> is v
    changeSubscribers,      \* callbacks of registerOnChange whose subscription is not ended
    endedSubscribers,       \* callbacks whose subscription ngOnDestroy ended
    onTouched,              \* this.onTouched: NoCallback or a registered callback
    \* ---- observation of the most recent calls ----
    fitCalls,               \* calls of adjustScrollTop... since the last other change (at most 2)
    scrollBefore,           \* scrollTop before the most recent call
    scrollWrites,           \* writes to scrollTop made by the most recent call
    lastChange,             \* the selection change of the most recent step, if it was one
    onChangeCalls,          \* the values that step handed to matSelect._onChange, in order
    observed                \* the most recent step: its operation and the calls it made

vars == <<panel, optionsLength, scrollTop, activeItemIndex, groupStarts, optionHeight,
          searchInputHeight, multiple, hasNgControl, compareById, refetched,
          ngControlValue,
          optionValues, matOption, alwaysRestoreSelectedOptionsMulti,
          formControlValue, previousSelectedValues, initialized, destroyed,
          subscribedValueChanges, errors, noEntriesFoundLabel, clearSearchInput,
          disableInitialFocus, enableClearOnEscapePressed,
          preventHomeEndKeyPropagation,
          disableScrollToActiveOnOptionsChanged, subscriptions, matOptionDisabled,
          panelClass,
          matOptionClasses, valueEmitted, showNoEntriesFound, openedChangePending,
          optionsAssigned, previousFirstOption, activeItemStale, optionsTimers,
          widthTimers, focusTimers, inputFocused, inputWidthSet, lastExternalInputValue,
          changeSubscribers, endedSubscribers, onTouched, fitCalls, scrollBefore,
          scrollWrites, lastChange, onChangeCalls, observed>>

hostVars == <<multiple, hasNgControl, compareById, refetched, ngControlValue,
              optionValues>>
multiVars == <<alwaysRestoreSelectedOptionsMulti, formControlValue,
               previousSelectedValues, initialized, destroyed, subscribedValueChanges,
               errors, lastChange, onChangeCalls>>
geometryVars == <<panel, optionsLength, optionHeight, searchInputHeight, matOption,
                  groupStarts>>
fitVars == <<scrollTop, activeItemIndex, fitCalls, scrollBefore, scrollWrites>>
inputVars == <<noEntriesFoundLabel, clearSearchInput, disableInitialFocus,
               enableClearOnEscapePressed, preventHomeEndKeyPropagation,
               disableScrollToActiveOnOptionsChanged>>
noEntriesVars == <<valueEmitted, showNoEntriesFound, matOptionClasses>>
panelVars == <<openedChangePending, optionsAssigned, previousFirstOption,
               activeItemStale, optionsTimers, widthTimers, focusTimers,
               inputFocused, inputWidthSet>>
accessorVars == <<lastExternalInputValue, changeSubscribers, endedSubscribers,
                  onTouched>>

(***************************************************************************)
(* Bounds of the model.                                                    *)
(***************************************************************************)
MaxHeaderUnits == 15
MaxRowUnits == 6
MaxScrollUnits == 8
MaxIndex == 7
MaxGroups == 2
MaxIds == 3
MaxCascade == 2
MaxCallbacks == 2
MaxPending == 2
MaxTimers == 1

\* The max height of the select's overlay panel.
SELECT_PANEL_MAX_HEIGHT == 256

HeaderHeights == {8 * k : k \in 0..MaxHeaderUnits}
RowHeights == {8 * k : k \in 1..MaxRowUnits}
ScrollPositions == {40 * k : k \in 0..MaxScrollUnits}
\* Option groups of three options each: the indexes of their first options.
GroupLayout(n) == {3 * k : k \in 0..(n - 1)}
ActiveIndexes == {<<>>} \cup {<<n>> : n \in -1..MaxIndex}

\* Option values are objects: an id, and ref telling apart two objects that
\* carry the same id (the same entity fetched twice).
PlainValues == {[id |-> n, ref |-> 1] : n \in 1..MaxIds}
RefetchedValues ==
    {[id |-> n, ref |-> 1] : n \in 1..(MaxIds - 1)} \cup {[id |-> 1, ref |-> 2]}
\* A value of the host's control: an array of option values, or something
\* that is no array (null, undefined, or one option value in single mode).
Arr(items) == [isArray |-> TRUE, items |-> items]
NotArr(items) == [isArray |-> FALSE, items |-> items]
Undefined == NotArr(<<>>)
\* The arrays a multiple select emits: values in option order, one per id.
PlainSelections ==
    {Arr(q) : q \in {q \in UNION {[1..n -> PlainValues] : n \in 0..MaxIds} :
                        \A j, k \in DOMAIN q : j < k => q[j].id < q[k].id}}
RefetchedSelections ==
    {Arr(q) : q \in {q \in UNION {[1..n -> RefetchedValues] : n \in 0..MaxIds} :
                        \A j, k \in DOMAIN q : j < k => q[j].id < q[k].id}}
\* The values of the rendered options: at most one option per id.
PlainOptionValues == SUBSET PlainValues
RefetchedOptionValues ==
    {o \in SUBSET RefetchedValues : \A v, w \in o : v.id = w.id => v = w}
Values == IF refetched THEN RefetchedValues ELSE PlainValues
SelectionArrays == IF refetched THEN RefetchedSelections ELSE PlainSelections
SingleValues == {Undefined} \cup {NotArr(<<v>>) : v \in Values}
OptionValueSets == IF refetched THEN RefetchedOptionValues ELSE PlainOptionValues
FilterTexts == {"", "s"}
NoChange == [event |-> FALSE, handled |-> FALSE, emitted |-> Undefined,
             previous |-> Undefined]
MultipleWithoutControl ==
    "the mat-select containing ngx-mat-select-search must have a ngModel or formControl directive when multiple=true"
NotInsideMatOption ==
    "<ngx-mat-select-search> must be placed inside a <mat-option> element"

\* The texts writeValue is called with.
WrittenValues == FilterTexts \cup {"t"}
\* The functions the forms API registers, and the initial onTouched.
Callbacks == 1..MaxCallbacks
NoCallback == 0
\* The subscriptions ngOnInit makes, and those the first openedChange adds.
OpenedChangeDelayed == "matSelect.openedChange.pipe(delay(1))"
OpenedChangeOnce == "matSelect.openedChange.pipe(take(1))"
ShowNoEntriesFoundSub == "_showNoEntriesFound$"
ViewportRulerChange == "_viewportRuler.change()"
OptionsListSub == "optionsList$"
KeyManagerChangeSub == "matSelect._keyManager.change"
OptionsChangesSub == "_options.changes"
ContainsMatSelectSearch == "contains-mat-select-search"
NoEntriesFoundClass == "mat-select-search-no-entries-found"
\* Keyboard events: event.key and event.keyCode.
ENTER == 13
ESCAPE == 27
SPACE == 32
END == 35
HOME == 36
UP_ARROW == 38
DOWN_ARROW == 40
ZERO == 48
NINE == 57
A == 65
Z == 90
\* An event of an old browser has no event.key ("" here); "/" and the
\* digit of the numeric keypad have key codes outside the ranges tested.
KeyEvents == {[key |-> "Escape", keyCode |-> ESCAPE],
              [key |-> "a", keyCode |-> A],
              [key |-> "", keyCode |-> Z],
              [key |-> "5", keyCode |-> ZERO + 5],
              [key |-> "", keyCode |-> NINE],
              [key |-> "1", keyCode |-> 97],
              [key |-> " ", keyCode |-> SPACE],
              [key |-> "", keyCode |-> SPACE],
              [key |-> "/", keyCode |-> 191],
              [key |-> "Home", keyCode |-> HOME],
              [key |-> "End", keyCode |-> END],
              [key |-> "Enter", keyCode |-> ENTER],
              [key |-> "ArrowUp", keyCode |-> UP_ARROW],
              [key |-> "ArrowDown", keyCode |-> DOWN_ARROW]}
\* What is recorded about a step: the operation; its argument (a text or
\* a callback) and the key code of its event; the filter text and
\* _lastExternalInputValue it found; the
\* subscribers of the component it ran; the change callbacks and touched
\* callbacks it invoked; its calls of focus() on the search input; whether
\* it stopped the propagation of the event.
NoObservation ==
    [op |-> "none", arg |-> "", keyCode |-> 0, callback |-> NoCallback, text |-> "",
     marker |-> <<>>, handlers |-> {}, changeCalls |-> {}, touchedCalls |-> <<>>,
     focusCalls |-> 0, stopped |-> FALSE, announced |-> <<>>]
Observe(op) == [NoObservation EXCEPT !.op = op]

(***************************************************************************)
(* matSelect.panelClass.                                                   *)
(***************************************************************************)
\* A value of matSelect.panelClass: undefined, a string (text), an array of
\* strings (items), or an object, which is a Set of strings (entries) or a
\* plain class map; truthy and falsy are the own properties of an object
\* with a truthy and with a falsy value.
PanelClassValue(kind, text, items, entries, truthy, falsy) ==
    [kind |-> kind, text |-> text, items |-> items, entries |-> entries,
     truthy |-> truthy, falsy |-> falsy]
NoPanelClass == PanelClassValue("undefined", "", <<>>, {}, {}, {})
PanelClassString(text) == PanelClassValue("string", text, <<>>, {}, {}, {})
PanelClassArray(items) == PanelClassValue("array", "", items, {}, {}, {})
PanelClassMap(truthy, falsy) == PanelClassValue("map", "", <<>>, {}, truthy, falsy)
PanelClassSet(entries) == PanelClassValue("set", "", <<>>, entries, {}, {})

\* const panelClass = 'mat-select-search-panel'
SearchPanelClass == "mat-select-search-panel"

\* What the application binds to the panelClass of the select (the syntax
\* of ngClass: string | string[] | Set<string> | { [key: string]: any }).
PanelClassValues ==
    {NoPanelClass, PanelClassString(""), PanelClassString("custom"),
     PanelClassArray(<<>>), PanelClassArray(<<"custom">>),
     PanelClassArray(<<"custom", "wide">>),
     PanelClassMap({}, {}), PanelClassMap({"custom"}, {"wide"}),
     PanelClassMap({"custom"}, {SearchPanelClass}),
     PanelClassSet({}), PanelClassSet({"custom"})}

\* if (this.matSelect.panelClass): undefined and '' are falsy.
PanelClassTruthy(value) ==
    ~(value.kind = "undefined" \/ (value.kind = "string" /\ value.text = ""))

\* Lines 199-214 of ngOnInit: Array.isArray, then typeof 'string', then
\* typeof 'object' (true of a class map and of a Set, on which the
\* assignment sets a property), else the assignment of the class name.
AddPanelClass(value) ==
    IF PanelClassTruthy(value)
    THEN IF value.kind = "array"
         THEN [value EXCEPT !.items = Append(value.items, SearchPanelClass)]
         ELSE IF value.kind = "string"
              THEN PanelClassArray(<<value.text, SearchPanelClass>>)
              ELSE [value EXCEPT !.truthy = value.truthy \cup {SearchPanelClass},
                                 !.falsy = value.falsy \ {SearchPanelClass}]
    ELSE PanelClassString(SearchPanelClass)

(***************************************************************************)
(* Viewport fit.                                                           *)
(***************************************************************************)
Floor(a, b) == a \div b
Round(a, b) == (2 * a + b) \div (2 * b)

\* getMatOptionHeight()
getMatOptionHeight == IF optionsLength > 0 THEN optionHeight ELSE 0

\* this.matSelect._keyManager.activeItemIndex || 0
ActiveOptionIndex(idx) == IF idx = <<>> THEN 0 ELSE idx[1]

\* _countGroupLabelsBeforeOption(optionIndex, options, optionGroups): the
\* groups that start at or before the option.
countGroupLabelsBeforeOption(optionIndex, starts) ==
    Cardinality({g \in starts : g <= optionIndex})

\* Mutation: the index is not lowered inside a mat-option.
IndexOfOptionToFitIntoView_NoOffset(inOption, starts, idx) ==
    countGroupLabelsBeforeOption(ActiveOptionIndex(idx), starts)
    + ActiveOptionIndex(idx)

\* (this.matOption ? -1 : 0) + labelCount + activeOptionIndex
IndexOfOptionToFitIntoView(inOption, starts, idx) ==
    (IF inOption THEN -1 ELSE 0)
    + countGroupLabelsBeforeOption(ActiveOptionIndex(idx), starts)
    + ActiveOptionIndex(idx)

amountOfVisibleOptions(h, R) == Floor(SELECT_PANEL_MAX_HEIGHT - h, R)
indexOfFirstVisibleOption(s, h, R) == Round(s + h, R) - 1

\* Mutation: the scroll-up test is off by one row.
FitScrollTop_UpOffByOne(s, h, R, i) ==
    IF indexOfFirstVisibleOption(s, h, R) + 1 >= i
    THEN [write |-> TRUE, value |-> i * R]
    ELSE IF indexOfFirstVisibleOption(s, h, R) + amountOfVisibleOptions(h, R) <= i
         THEN [write |-> TRUE,
               value |-> (i + 1) * R - (SELECT_PANEL_MAX_HEIGHT - h)]
         ELSE [write |-> FALSE, value |-> s]

\* Mutation: the scroll-down branch forgets the active row's own height.
FitScrollTop_DownMissesRow(s, h, R, i) ==
    IF indexOfFirstVisibleOption(s, h, R) >= i
    THEN [write |-> TRUE, value |-> i * R]
    ELSE IF indexOfFirstVisibleOption(s, h, R) + amountOfVisibleOptions(h, R) <= i
         THEN [write |-> TRUE,
               value |-> i * R - (SELECT_PANEL_MAX_HEIGHT - h)]
         ELSE [write |-> FALSE, value |-> s]

\* The branches of adjustScrollTopToFitActiveOptionIntoView: the value it
\* assigns to scrollTop and whether it assigns at all.
FitScrollTop(s, h, R, i) ==
    IF indexOfFirstVisibleOption(s, h, R) >= i
    THEN [write |-> TRUE, value |-> i * R]
    ELSE IF indexOfFirstVisibleOption(s, h, R) + amountOfVisibleOptions(h, R) <= i
         THEN [write |-> TRUE,
               value |-> (i + 1) * R - (SELECT_PANEL_MAX_HEIGHT - h)]
         ELSE [write |-> FALSE, value |-> s]

\* The row the method fits into view in the current state.
FitIndex == IndexOfOptionToFitIntoView(matOption, groupStarts, activeItemIndex)

\* Mutation: the method does not test this.matSelect.panel.
AdjustScrollTop_NoPanelTest(idx) ==
    LET fit == FitScrollTop(scrollTop, searchInputHeight, getMatOptionHeight,
                            IndexOfOptionToFitIntoView(matOption, groupStarts, idx))
    IN  /\ scrollBefore' = scrollTop
        /\ IF optionsLength > 0
           THEN /\ scrollTop' = fit.value
                /\ scrollWrites' = IF fit.write THEN 1 ELSE 0
           ELSE /\ scrollTop' = scrollTop
                /\ scrollWrites' = 0

\* adjustScrollTopToFitActiveOptionIntoView() as an update of the panel's
\* scrollTop, with active item idx.
AdjustScrollTop(idx) ==
    LET fit == FitScrollTop(scrollTop, searchInputHeight, getMatOptionHeight,
                            IndexOfOptionToFitIntoView(matOption, groupStarts, idx))
    IN  /\ scrollBefore' = scrollTop
        /\ IF panel /\ optionsLength > 0
           THEN /\ scrollTop' = fit.value
                /\ scrollWrites' = IF fit.write THEN 1 ELSE 0
           ELSE /\ scrollTop' = scrollTop
                /\ scrollWrites' = 0

\* The scroll offset adjustScrollTopToFitActiveOptionIntoView() leaves when
\* the offset is s and the active item idx, and whether it writes it.
AdjustedScroll(s, idx) ==
    IF panel /\ optionsLength > 0
    THEN FitScrollTop(s, searchInputHeight, getMatOptionHeight,
                      IndexOfOptionToFitIntoView(matOption, groupStarts, idx))
    ELSE [write |-> FALSE, value |-> s]

\* Variables no operation of the component assigns.
staticVars == <<multiple, hasNgControl, compareById, refetched, optionHeight,
                searchInputHeight, matOption, groupStarts,
                alwaysRestoreSelectedOptionsMulti, inputVars>>
\* Everything the viewport fit neither reads nor writes.
fitFrame == <<inputVars, subscriptions, matOptionDisabled, panelClass, noEntriesVars,
              openedChangePending, optionsAssigned, previousFirstOption,
              optionsTimers, widthTimers, focusTimers, inputFocused, inputWidthSet,
              accessorVars, observed>>

\* A direct call of the method (the option-list handler's call, or any
\* redundant one).
AdjustScrollTopToFitActiveOptionIntoView ==
    /\ AdjustScrollTop(activeItemIndex)
    /\ fitCalls' = IF fitCalls < 2 THEN fitCalls + 1 ELSE 2
    /\ UNCHANGED <<activeItemIndex, activeItemStale>>
    /\ UNCHANGED <<geometryVars, hostVars, multiVars, fitFrame>>

\* matSelect._keyManager.change emits: the host made another item active
\* and, while the subscription of the first openedChange lasts, the
\* subscriber fits it into view.
KeyManagerChange ==
    \E idx \in ActiveIndexes :
        /\ panel
        /\ optionsLength > 0
        /\ IF idx = <<>> THEN TRUE ELSE idx[1] < optionsLength
        /\ activeItemIndex' = idx
        /\ activeItemStale' = FALSE
        /\ IF KeyManagerChangeSub \in subscriptions
           THEN /\ AdjustScrollTop(idx)
                /\ fitCalls' = 1
           ELSE /\ scrollTop' = scrollTop
                /\ scrollBefore' = scrollTop
                /\ scrollWrites' = 0
                /\ fitCalls' = 0
        /\ UNCHANGED <<geometryVars, hostVars, multiVars, fitFrame>>

\* The user scrolls the panel.
PanelScroll ==
    \E s \in ScrollPositions :
        /\ panel
        /\ scrollTop' = s
        /\ scrollBefore' = s
        /\ fitCalls' = 0
        /\ scrollWrites' = 0
        /\ UNCHANGED <<activeItemIndex, activeItemStale>>
        /\ UNCHANGED <<geometryVars, hostVars, multiVars, fitFrame>>

\* The inputs as the constructor sets them.
DefaultInputs ==
    /\ noEntriesFoundLabel = TRUE
    /\ clearSearchInput = TRUE
    /\ disableInitialFocus = FALSE
    /\ enableClearOnEscapePressed = FALSE
    /\ preventHomeEndKeyPropagation = FALSE
    /\ disableScrollToActiveOnOptionsChanged = FALSE

\* The value accessor of a freshly constructed component.
AccessorIdle ==
    /\ lastExternalInputValue = <<>>
    /\ changeSubscribers = {}
    /\ endedSubscribers = {}
    /\ onTouched = NoCallback

\* Nothing deferred is pending, nothing has been emitted or focused.
Quiet ==
    /\ valueEmitted = FALSE
    /\ showNoEntriesFound = FALSE
    /\ openedChangePending = <<>>
    /\ previousFirstOption = <<>>
    /\ activeItemStale = FALSE
    /\ optionsTimers = 0
    /\ widthTimers = 0
    /\ focusTimers = 0
    /\ inputFocused = FALSE
    /\ inputWidthSet = FALSE
    /\ observed = NoObservation

\* The multi-select state of a component in a host that is not looked at.
MultiIdle ==
    /\ multiple = FALSE
    /\ hasNgControl = FALSE
    /\ compareById = FALSE
    /\ refetched = FALSE
    /\ ngControlValue = Undefined
    /\ optionValues = {}
    /\ onChangeCalls = <<>>
    /\ alwaysRestoreSelectedOptionsMulti = FALSE
    /\ formControlValue = ""
    /\ previousSelectedValues = Undefined
    /\ destroyed = FALSE
    /\ subscribedValueChanges = FALSE
    /\ lastChange = NoChange

\* An initialised component whose panel has been opened before: any
\* geometry of the panel, the subscriptions of ngOnInit and of the first
\* openedChange in place.
InitFit ==
    /\ panel \in BOOLEAN
    /\ optionsLength \in {0, MaxIndex + 1}
    /\ optionHeight \in RowHeights
    /\ searchInputHeight \in HeaderHeights
    /\ matOption \in BOOLEAN
    /\ scrollTop = 0
    /\ activeItemIndex = <<>>
    /\ groupStarts \in {GroupLayout(0), GroupLayout(MaxGroups)}
    /\ fitCalls = 0
    /\ scrollBefore = scrollTop
    /\ scrollWrites = 0
    /\ MultiIdle
    /\ initialized = TRUE
    /\ errors = IF matOption THEN {} ELSE {NotInsideMatOption}
    /\ subscriptions = {OpenedChangeDelayed, ShowNoEntriesFoundSub,
                        ViewportRulerChange, OptionsListSub, KeyManagerChangeSub,
                        OptionsChangesSub}
    /\ matOptionDisabled = matOption
    /\ panelClass = AddPanelClass(NoPanelClass)
    /\ matOptionClasses = IF matOption THEN {ContainsMatSelectSearch} ELSE {}
    /\ optionsAssigned = TRUE
    /\ DefaultInputs
    /\ AccessorIdle
    /\ Quiet

NextFit ==
    \/ AdjustScrollTopToFitActiveOptionIntoView
    \/ KeyManagerChange
    \/ PanelScroll

SpecFit == InitFit /\ [][NextFit]_vars

(***************************************************************************)
(* Multi-select restoration.                                               *)
(***************************************************************************)
\* this.matSelect.compareWith(v, w): the host's comparison, by id when the
\* host configured one, by identity otherwise.
compareWith(v, w) == IF compareById THEN v.id = w.id ELSE v = w

\* Mutation: the deselection test compares by identity.
previousValueDeselectedDuringFiltering_Identity(cur, opts, previousValue) ==
    /\ ~(\E k \in DOMAIN cur : cur[k] = previousValue)
    /\ ~(\E v \in opts : v = previousValue)

\* Mutation: the deselection test forgets the new selection.
previousValueDeselectedDuringFiltering_OptionsOnly(cur, opts, previousValue) ==
    ~(\E v \in opts : compareWith(v, previousValue))

\* Mutation: the deselection test forgets the rendered options.
previousValueDeselectedDuringFiltering_SelectionOnly(cur, opts, previousValue) ==
    ~(\E k \in DOMAIN cur : compareWith(cur[k], previousValue))

\* previousValueDeselectedDuringFiltering, for the selection cur as pushed
\* to so far and the rendered option values opts.
previousValueDeselectedDuringFiltering(cur, opts, previousValue) ==
    /\ ~(\E k \in DOMAIN cur : compareWith(cur[k], previousValue))
    /\ ~(\E v \in opts : compareWith(v, previousValue))

\* this.previousSelectedValues.forEach(...) from its k-th element on: the
\* deselected values are pushed to cur.
RECURSIVE RestoreValues(_, _, _, _)
RestoreValues(prev, cur, opts, k) ==
    IF k > Len(prev)
    THEN cur
    ELSE RestoreValues(prev,
                       IF previousValueDeselectedDuringFiltering(cur, opts, prev[k])
                       THEN Append(cur, prev[k])
                       ELSE cur,
                       opts, k + 1)

\* Mutation: restoring needs the flag or a filter text, not both.
RestoringEnabled_FlagOrFiltering(flag, text) == flag \/ text # ""

\* The tests a selection change has to pass before values are restored:
\* alwaysRestoreSelectedOptionsMulti, then filteringInProgress.
RestoringEnabled(flag, text) == flag /\ text # ""

\* One run of the subscriber of ngControl.valueChanges with
\* this.previousSelectedValues = prev and the emitted value cur: the
\* previousSelectedValues it stores, and the value it hands to
\* matSelect._onChange if restore.
ValueChangesHandler(prev, cur) ==
    IF ~multiple
    THEN [previous |-> cur, restore |-> FALSE, value |-> cur]
    ELSE IF RestoringEnabled(alwaysRestoreSelectedOptionsMulti, formControlValue)
            /\ prev.isArray
         THEN LET current == IF cur.isArray THEN cur.items ELSE <<>>
                  restored == RestoreValues(prev.items, current, optionValues, 1)
              IN  [previous |-> Arr(restored),
                   restore |-> Len(restored) > Len(current),
                   value |-> Arr(restored)]
         ELSE [previous |-> cur, restore |-> FALSE, value |-> cur]

\* The handler and what matSelect._onChange(value) sets off: the control
\* takes the value and emits it on valueChanges, which runs the handler
\* again before the first run returns (followed for fuel emissions).
RECURSIVE HandleValueChange(_, _, _, _)
HandleValueChange(prev, cur, calls, fuel) ==
    LET r == ValueChangesHandler(prev, cur)
    IN  IF ~r.restore
        THEN [previous |-> r.previous, control |-> cur, calls |-> calls]
        ELSE IF fuel > 0
             THEN HandleValueChange(r.previous, r.value, Append(calls, r.value),
                                    fuel - 1)
             ELSE [previous |-> r.previous, control |-> r.value,
                   calls |-> Append(calls, r.value)]

(***************************************************************************)
(* Subscriptions, the panel, and the value accessor.                       *)
(***************************************************************************)
\* getOptionsLengthOffset()
getOptionsLengthOffset == IF matOption THEN 1 ELSE 0

\* matSelect.options.length when the other options carry the values vals:
\* the mat-option holding the component is an option of the select too.
OptionCount(vals) == Cardinality(vals) + getOptionsLengthOffset

\* this._options.toArray()[this.getOptionsLengthOffset()], the options
\* standing in the order of their ids: <<>> is undefined.
FirstOption(vals) ==
    IF vals = {} THEN <<>> ELSE <<CHOOSE v \in vals : \A w \in vals : v.id <= w.id>>

\* The index of the option with value v in matSelect.options.
IndexOfOption(v, vals) ==
    getOptionsLengthOffset + Cardinality({w \in vals : w.id < v.id})

\* The values of the options at index idx (none or one).
OptionsAtIndex(idx, vals) == {v \in vals : <<IndexOfOption(v, vals)>> = idx}

\* The subscriptions ngOnInit makes (lines 224-324) whatever the placement;
\* the one to ngControl.valueChanges is subscribedValueChanges.
SubscriptionsOfNgOnInit_OnlyInsideOption(inOption) ==
    IF inOption
    THEN {OpenedChangeDelayed, OpenedChangeOnce, ShowNoEntriesFoundSub,
          ViewportRulerChange, OptionsListSub}
    ELSE {}

SubscriptionsOfNgOnInit(inOption) ==
    {OpenedChangeDelayed, OpenedChangeOnce, ShowNoEntriesFoundSub,
     ViewportRulerChange, OptionsListSub}

\* Mutation: ngOnDestroy leaves the emissions inside delay(1) alone.
PendingAfterDestroy_Kept(pending) == pending

\* takeUntil(_onDestroy) behind delay(1): unsubscribing drops the emissions
\* that are still delayed.
PendingAfterDestroy(pending) == <<>>

\* optionsLength$: of(null) counts 0 until this._options is set.
OptionsLengthSeen(assigned, len) == IF assigned THEN len ELSE 0

\* Mutation: the no-results test forgets the mat-option of the component.
ShowNoEntriesFound_NoOffset(label, value, len) ==
    label /\ value # "" /\ len = 0

\* this.noEntriesFoundLabel && value && optionsLength === this.getOptionsLengthOffset()
ShowNoEntriesFound(label, value, len) ==
    label /\ value # "" /\ len = getOptionsLengthOffset

\* _showNoEntriesFound$ emits for the text value and len options: the
\* subscriber of ngOnInit sets or removes the class on the mat-option.
EmitShowNoEntriesFound(value, len) ==
    LET show == ShowNoEntriesFound(noEntriesFoundLabel, value, len)
    IN  /\ showNoEntriesFound' = show
        /\ matOptionClasses' =
               IF matOption
               THEN IF show
                    THEN matOptionClasses \cup {NoEntriesFoundClass}
                    ELSE matOptionClasses \ {NoEntriesFoundClass}
               ELSE matOptionClasses

\* optionsLength$ emits len: combineLatest emits once valueChanges has.
OptionsLengthEmits(len) ==
    IF ShowNoEntriesFoundSub \in subscriptions /\ valueEmitted
    THEN /\ EmitShowNoEntriesFound(formControlValue, len)
         /\ UNCHANGED valueEmitted
    ELSE UNCHANGED noEntriesVars

\* Mutation: the filter of registerOnChange lets every value pass.
ChangeFilterPasses_Always(value, marker) == TRUE

\* filter(value => value !== this._lastExternalInputValue)
ChangeFilterPasses(value, marker) == <<value>> # marker

\* Mutation: the tap of registerOnChange leaves the marker alone.
MarkerAfterChange_Kept(marker) == marker

\* tap(() => this._lastExternalInputValue = undefined)
MarkerAfterChange(marker) == <<>>

\* What the subscriptions of registerOnChange do with an emission of
\* valueChanges: the callbacks they invoke (with their argument) and the
\* _lastExternalInputValue they leave.
PropagateChange(value, marker, subs) ==
    IF subs # {} /\ ChangeFilterPasses(value, marker)
    THEN [calls |-> {<<cb, value>> : cb \in subs}, marker |-> MarkerAfterChange(marker)]
    ELSE [calls |-> {}, marker |-> marker]

\* this._formControl.setValue(value), or the input's own change of the
\* control, with _lastExternalInputValue = marker: valueChanges emits value
\* to the subscriptions of registerOnChange and to _showNoEntriesFound$.
ValueChanges(value, marker) ==
    /\ formControlValue' = value
    /\ lastExternalInputValue' = PropagateChange(value, marker, changeSubscribers).marker
    /\ IF ShowNoEntriesFoundSub \in subscriptions
       THEN /\ valueEmitted' = TRUE
            /\ EmitShowNoEntriesFound(value,
                                      OptionsLengthSeen(optionsAssigned, optionsLength))
       ELSE UNCHANGED noEntriesVars

NoValueChange == UNCHANGED <<formControlValue, lastExternalInputValue, noEntriesVars>>

\* The subscribers of the component an emission of valueChanges runs.
ValueChangesHandlers ==
    IF ShowNoEntriesFoundSub \in subscriptions THEN {ShowNoEntriesFoundSub} ELSE {}

\* No call of adjustScrollTopToFitActiveOptionIntoView in this step.
NoScroll ==
    /\ scrollTop' = scrollTop
    /\ scrollBefore' = scrollTop
    /\ scrollWrites' = 0
    /\ fitCalls' = 0

\* No selection change in this step.
NoSelection ==
    /\ lastChange' = NoChange
    /\ onChangeCalls' = <<>>
    /\ UNCHANGED <<ngControlValue, previousSelectedValues>>

\* Mutation: the error is logged whatever the mode.
MultipleErrorLogged_AnyMode == ~hasNgControl

\* initMultipleHandling logs its error.
MultipleErrorLogged == ~hasNgControl /\ multiple

\* ngOnInit: the placement check, the subscriptions, initMultipleHandling.
NgOnInit ==
    /\ ~initialized
    /\ initialized' = TRUE
    /\ errors' = errors
                 \cup (IF matOption THEN {} ELSE {NotInsideMatOption})
                 \cup (IF MultipleErrorLogged THEN {MultipleWithoutControl} ELSE {})
    /\ panelClass' = AddPanelClass(panelClass)
    /\ matOptionDisabled' = (matOption \/ matOptionDisabled)
    /\ matOptionClasses' = IF matOption
                           THEN matOptionClasses \cup {ContainsMatSelectSearch}
                           ELSE matOptionClasses
    /\ subscriptions' = subscriptions \cup SubscriptionsOfNgOnInit(matOption)
    /\ IF hasNgControl
       THEN /\ previousSelectedValues' = ngControlValue
            /\ subscribedValueChanges' = TRUE
       ELSE UNCHANGED <<previousSelectedValues, subscribedValueChanges>>
    /\ lastChange' = NoChange
    /\ onChangeCalls' = <<>>
    /\ observed' = Observe("ngOnInit")
    /\ UNCHANGED <<hostVars, geometryVars, fitVars, alwaysRestoreSelectedOptionsMulti,
                   formControlValue, destroyed, inputVars, valueEmitted,
                   showNoEntriesFound, panelVars, accessorVars>>

\* ngOnDestroy: _onDestroy emits and takeUntil ends the subscriptions.
NgOnDestroy ==
    /\ initialized
    /\ ~destroyed
    /\ destroyed' = TRUE
    /\ subscribedValueChanges' = FALSE
    /\ subscriptions' = {}
    /\ openedChangePending' = PendingAfterDestroy(openedChangePending)
    /\ changeSubscribers' = {}
    /\ endedSubscribers' = endedSubscribers \cup changeSubscribers
    /\ lastChange' = NoChange
    /\ onChangeCalls' = <<>>
    /\ observed' = Observe("ngOnDestroy")
    /\ UNCHANGED <<hostVars, geometryVars, fitVars, alwaysRestoreSelectedOptionsMulti,
                   formControlValue, previousSelectedValues, initialized, errors,
                   inputVars, matOptionDisabled, panelClass, noEntriesVars, optionsAssigned,
                   previousFirstOption, activeItemStale, optionsTimers, widthTimers,
                   focusTimers, inputFocused, inputWidthSet, lastExternalInputValue,
                   onTouched>>

\* The user edits the search input.
FilterTextInput ==
    \E text \in FilterTexts :
        /\ initialized
        /\ ~destroyed
        /\ text # formControlValue
        /\ ValueChanges(text, lastExternalInputValue)
        /\ lastChange' = NoChange
        /\ onChangeCalls' = <<>>
        /\ observed' = [Observe("input") EXCEPT
                           !.arg = text,
                           !.text = formControlValue,
                           !.marker = lastExternalInputValue,
                           !.handlers = ValueChangesHandlers,
                           !.changeCalls =
                               PropagateChange(text, lastExternalInputValue,
                                               changeSubscribers).calls]
        /\ UNCHANGED <<hostVars, geometryVars, fitVars,
                       alwaysRestoreSelectedOptionsMulti, previousSelectedValues,
                       initialized, destroyed, subscribedValueChanges, errors,
                       inputVars, subscriptions, matOptionDisabled, panelClass, panelVars,
                       changeSubscribers, endedSubscribers, onTouched>>

\* The host's list of options changes (the application filtered it, or
\* loaded more): the option with value v comes or goes.  The key manager
\* follows its active item to its new index or keeps an item that left the
\* list; once this._options is set, optionsList$ emits and the subscriber
\* of _options.changes defers its work with setTimeout.
OptionsChanged(v) ==
    LET vals == (optionValues \ {v}) \cup ({v} \ optionValues)
        active == IF activeItemStale
                  THEN {}
                  ELSE OptionsAtIndex(activeItemIndex, optionValues)
    IN  /\ initialized
        /\ vals \in OptionValueSets
        /\ OptionsChangesSub \in subscriptions => optionsTimers < MaxTimers
        /\ optionValues' = vals
        /\ optionsLength' = OptionCount(vals)
        /\ IF active = {}
           THEN UNCHANGED <<activeItemIndex, activeItemStale>>
           ELSE IF active \subseteq vals
                THEN /\ activeItemIndex' =
                            <<IndexOfOption(CHOOSE w \in active : TRUE, vals)>>
                     /\ UNCHANGED activeItemStale
                ELSE /\ activeItemStale' = TRUE
                     /\ UNCHANGED activeItemIndex
        /\ IF optionsAssigned
           THEN OptionsLengthEmits(OptionCount(vals))
           ELSE UNCHANGED noEntriesVars
        /\ optionsTimers' = IF OptionsChangesSub \in subscriptions
                            THEN optionsTimers + 1
                            ELSE optionsTimers
        /\ NoScroll
        /\ lastChange' = NoChange
        /\ onChangeCalls' = <<>>
        /\ observed' = [Observe("optionsChange") EXCEPT
                           !.handlers =
                               IF optionsAssigned
                               THEN (subscriptions \cap {OptionsListSub,
                                                         OptionsChangesSub})
                                    \cup (IF valueEmitted
                                          THEN subscriptions \cap {ShowNoEntriesFoundSub}
                                          ELSE {})
                               ELSE {}]
        /\ UNCHANGED <<multiple, hasNgControl, compareById, refetched,
                       ngControlValue, panel, optionHeight, searchInputHeight,
                       matOption, groupStarts, alwaysRestoreSelectedOptionsMulti,
                       formControlValue, previousSelectedValues, initialized,
                       destroyed, subscribedValueChanges, errors, inputVars,
                       subscriptions, matOptionDisabled, panelClass, openedChangePending,
                       optionsAssigned, previousFirstOption, widthTimers,
                       focusTimers, inputFocused, inputWidthSet, accessorVars>>

\* The list changes in the lifetime of the component.
OptionsChange == \E v \in Values : ~destroyed /\ OptionsChanged(v)

\* The list changes after ngOnDestroy.
OptionsChangeAfterDestroy == \E v \in Values : destroyed /\ OptionsChanged(v)

\* The host's selection changes to cur; with a control, valueChanges emits it.
SelectionChange ==
    \E cur \in IF multiple THEN SelectionArrays \cup {Undefined} ELSE SingleValues :
        /\ initialized
        /\ IF subscribedValueChanges
           THEN LET r == HandleValueChange(previousSelectedValues, cur, <<>>, MaxCascade)
                IN  /\ previousSelectedValues' = r.previous
                    /\ ngControlValue' = r.control
                    /\ onChangeCalls' = r.calls
                    /\ lastChange' = [event |-> TRUE, handled |-> TRUE, emitted |-> cur,
                                      previous |-> previousSelectedValues]
           ELSE /\ ngControlValue' = cur
                /\ onChangeCalls' = <<>>
                /\ lastChange' = [event |-> TRUE, handled |-> FALSE, emitted |-> cur,
                                  previous |-> previousSelectedValues]
                /\ UNCHANGED previousSelectedValues
        /\ observed' = NoObservation
        /\ UNCHANGED <<multiple, hasNgControl, compareById, refetched, optionValues,
                       geometryVars,
                       fitVars, alwaysRestoreSelectedOptionsMulti, formControlValue,
                       initialized, destroyed, subscribedValueChanges, errors,
                       inputVars, subscriptions, matOptionDisabled, panelClass, noEntriesVars,
                       panelVars, accessorVars>>

\* registerOnChange(fn): one more subscription to valueChanges.  takeUntil
\* ends it when _onDestroy emits; it ignores that _onDestroy has completed,
\* so a subscription made after ngOnDestroy stays.
RegisterOnChange ==
    \E cb \in Callbacks \ (changeSubscribers \cup endedSubscribers) :
        /\ changeSubscribers' = changeSubscribers \cup {cb}
        /\ observed' = [Observe("registerOnChange") EXCEPT !.callback = cb]
        /\ NoValueChange
        /\ NoScroll
        /\ NoSelection
        /\ UNCHANGED <<staticVars, optionValues, optionsLength, panel,
                       activeItemIndex, initialized, destroyed,
                       subscribedValueChanges, errors, subscriptions,
                       matOptionDisabled, panelClass, panelVars, endedSubscribers, onTouched>>

\* registerOnTouched(fn)
RegisterOnTouched ==
    \E cb \in Callbacks \ {onTouched} :
        /\ onTouched' = cb
        /\ observed' = [Observe("registerOnTouched") EXCEPT !.callback = cb]
        /\ NoValueChange
        /\ NoScroll
        /\ NoSelection
        /\ UNCHANGED <<staticVars, optionValues, optionsLength, panel,
                       activeItemIndex, initialized, destroyed,
                       subscribedValueChanges, errors, subscriptions,
                       matOptionDisabled, panelClass, panelVars, changeSubscribers,
                       endedSubscribers>>

\* writeValue(value)
WriteValue ==
    \E value \in WrittenValues :
        /\ ValueChanges(value, <<value>>)
        /\ observed' = [Observe("writeValue") EXCEPT
                           !.arg = value,
                           !.text = formControlValue,
                           !.marker = lastExternalInputValue,
                           !.handlers = ValueChangesHandlers,
                           !.changeCalls =
                               PropagateChange(value, <<value>>,
                                               changeSubscribers).calls]
        /\ NoScroll
        /\ NoSelection
        /\ UNCHANGED <<staticVars, optionValues, optionsLength, panel,
                       activeItemIndex, initialized, destroyed,
                       subscribedValueChanges, errors, subscriptions,
                       matOptionDisabled, panelClass, panelVars, changeSubscribers,
                       endedSubscribers, onTouched>>

\* Mutation: onBlur calls the callback twice.
TouchedCalls_Twice(cb) == IF cb = NoCallback THEN <<>> ELSE <<cb, cb>>

\* this.onTouched(): the registered callbacks it invokes; the initial
\* function does nothing.
TouchedCalls(cb) == IF cb = NoCallback THEN <<>> ELSE <<cb>>

\* The search input loses the focus: onBlur().
Blur ==
    /\ initialized
    /\ ~destroyed
    /\ inputFocused' = FALSE
    /\ observed' = [Observe("blur") EXCEPT
                       !.text = formControlValue,
                       !.touchedCalls = TouchedCalls(onTouched)]
    /\ NoValueChange
    /\ NoScroll
    /\ NoSelection
    /\ UNCHANGED <<staticVars, optionValues, optionsLength, panel, activeItemIndex,
                   initialized, destroyed, subscribedValueChanges, errors,
                   subscriptions, matOptionDisabled, panelClass, openedChangePending,
                   optionsAssigned, previousFirstOption, activeItemStale,
                   optionsTimers, widthTimers, focusTimers, inputWidthSet,
                   accessorVars>>

\* The subscriber of openedChange.pipe(take(1)): subscribes to
\* _keyManager.change and to _options.changes, sets this._options (so that
\* optionsList$ emits the list) and stores the first option.
FirstOpenedChange ==
    IF OpenedChangeOnce \in subscriptions
    THEN /\ subscriptions' = (subscriptions \ {OpenedChangeOnce})
                             \cup {KeyManagerChangeSub, OptionsChangesSub}
         /\ optionsAssigned' = TRUE
         /\ previousFirstOption' = FirstOption(optionValues)
         /\ OptionsLengthEmits(optionsLength)
    ELSE UNCHANGED <<subscriptions, optionsAssigned, previousFirstOption,
                     noEntriesVars>>

\* The subscribers of the component an emission of openedChange runs at
\* once (the delayed one runs in DeliverOpenedChange).
OpenedChangeHandlers ==
    IF OpenedChangeOnce \in subscriptions
    THEN {OpenedChangeOnce}
         \cup (subscriptions \cap {OptionsListSub})
         \cup (IF valueEmitted THEN subscriptions \cap {ShowNoEntriesFoundSub} ELSE {})
    ELSE {}

\* The host opens its panel and emits openedChange(true).
PanelOpens ==
    /\ initialized
    /\ ~panel
    /\ Len(openedChangePending) < MaxPending
    /\ panel' = TRUE
    /\ openedChangePending' = IF OpenedChangeDelayed \in subscriptions
                              THEN Append(openedChangePending, TRUE)
                              ELSE openedChangePending
    /\ FirstOpenedChange
    /\ observed' = [Observe("open") EXCEPT !.handlers = OpenedChangeHandlers]
    /\ NoScroll
    /\ NoSelection
    /\ UNCHANGED <<staticVars, optionValues, optionsLength, activeItemIndex,
                   formControlValue, lastExternalInputValue, initialized, destroyed,
                   subscribedValueChanges, errors, matOptionDisabled, panelClass,
                   activeItemStale, optionsTimers, widthTimers, focusTimers,
                   inputFocused, inputWidthSet, changeSubscribers,
                   endedSubscribers, onTouched>>

\* The host closes its panel and emits openedChange(false); the search
\* input leaves the document with the panel.
PanelCloses ==
    /\ initialized
    /\ panel
    /\ Len(openedChangePending) < MaxPending
    /\ panel' = FALSE
    /\ openedChangePending' = IF OpenedChangeDelayed \in subscriptions
                              THEN Append(openedChangePending, FALSE)
                              ELSE openedChangePending
    /\ FirstOpenedChange
    /\ inputFocused' = FALSE
    /\ observed' = [Observe("close") EXCEPT !.handlers = OpenedChangeHandlers]
    /\ NoScroll
    /\ NoSelection
    /\ UNCHANGED <<staticVars, optionValues, optionsLength, activeItemIndex,
                   formControlValue, lastExternalInputValue, initialized, destroyed,
                   subscribedValueChanges, errors, matOptionDisabled, panelClass,
                   activeItemStale, optionsTimers, widthTimers, focusTimers,
                   inputWidthSet, changeSubscribers, endedSubscribers, onTouched>>

\* Mutation: the open handler focuses whatever disableInitialFocus says.
FocusesOnOpen_Always(disabled) == TRUE

\* if (!this.disableInitialFocus) { this._focus(); }
FocusesOnOpen(disabled) == ~disabled

\* Mutation: the close handler resets whatever clearSearchInput says.
ResetsOnClose_Always(clear) == TRUE

\* if (this.clearSearchInput) { this._reset(); }
ResetsOnClose(clear) == clear

\* delay(1) has elapsed for the oldest emission of openedChange: the
\* subscriber of lines 224-240 runs.  _focus() returns early without
\* matSelect.panel; updateInputWidth() finds no .mat-select-panel then.
DeliverOpenedChange ==
    /\ openedChangePending # <<>>
    /\ openedChangePending' = Tail(openedChangePending)
    /\ IF Head(openedChangePending)
       THEN /\ inputWidthSet' = (inputWidthSet \/ panel)
            /\ inputFocused' = (inputFocused
                                \/ (FocusesOnOpen(disableInitialFocus) /\ panel))
            /\ NoValueChange
            /\ observed' = [Observe("opened") EXCEPT
                               !.text = formControlValue,
                               !.handlers = {OpenedChangeDelayed},
                               !.focusCalls =
                                   IF FocusesOnOpen(disableInitialFocus) /\ panel
                                   THEN 1 ELSE 0]
       ELSE /\ IF ResetsOnClose(clearSearchInput)
               THEN /\ ValueChanges("", lastExternalInputValue)
                    /\ observed' = [Observe("closed") EXCEPT
                                       !.text = formControlValue,
                                       !.marker = lastExternalInputValue,
                                       !.handlers = {OpenedChangeDelayed}
                                                    \cup ValueChangesHandlers,
                                       !.changeCalls =
                                           PropagateChange("", lastExternalInputValue,
                                                           changeSubscribers).calls]
               ELSE /\ NoValueChange
                    /\ observed' = [Observe("closed") EXCEPT
                                       !.text = formControlValue,
                                       !.marker = lastExternalInputValue,
                                       !.handlers = {OpenedChangeDelayed}]
            /\ UNCHANGED <<inputWidthSet, inputFocused>>
    /\ NoScroll
    /\ NoSelection
    /\ UNCHANGED <<staticVars, optionValues, optionsLength, panel, activeItemIndex,
                   initialized, destroyed, subscribedValueChanges, errors,
                   subscriptions, matOptionDisabled, panelClass, optionsAssigned,
                   previousFirstOption, activeItemStale, optionsTimers, widthTimers,
                   focusTimers, changeSubscribers, endedSubscribers, onTouched>>

\* The viewport changes its size: _viewportRuler.change() emits.
ViewportResize ==
    /\ initialized
    /\ inputWidthSet' = (inputWidthSet
                         \/ (ViewportRulerChange \in subscriptions /\ panel))
    /\ observed' = [Observe("resize") EXCEPT
                       !.handlers = subscriptions \cap {ViewportRulerChange}]
    /\ NoValueChange
    /\ NoScroll
    /\ NoSelection
    /\ UNCHANGED <<staticVars, optionValues, optionsLength, panel, activeItemIndex,
                   initialized, destroyed, subscribedValueChanges, errors,
                   subscriptions, matOptionDisabled, panelClass, openedChangePending,
                   optionsAssigned, previousFirstOption, activeItemStale,
                   optionsTimers, widthTimers, focusTimers, inputFocused,
                   accessorVars>>

\* keyManager.activeItem is set.
HasActiveItem(idx) == idx # <<>> /\ idx[1] >= 0

\* this.matSelect.compareWith(previousFirstOption, currentFirstOption): the
\* arguments are options, not their values; the default compares them by
\* identity.
OptionsEqual(o1, o2) == o1 = o2

\* Mutation: the handler makes the first item active whatever it finds.
ActivatesFirstItem_Always(previousFirst, currentFirst, idx, stale) == TRUE

\* Mutation: the handler only looks at the first option.
ActivatesFirstItem_FirstOnly(previousFirst, currentFirst, idx, stale) ==
    ~OptionsEqual(previousFirst, currentFirst)

\* firstOptionIsChanged || !keyManager.activeItem
\*   || !options.find(option => this.matSelect.compareWith(option, keyManager.activeItem))
ActivatesFirstItem(previousFirst, currentFirst, idx, stale) ==
    \/ ~OptionsEqual(previousFirst, currentFirst)
    \/ ~HasActiveItem(idx)
    \/ stale

\* if (!this.disableScrollToActiveOnOptionsChanged) { this.adjustScrollTop...() }
ScrollsOnOptionsChanged(disabled) == ~disabled

\* The function the subscriber of _options.changes handed to setTimeout
\* runs (lines 269-295); ngOnDestroy does not clear the timeout.
\* setFirstItemActive() activates the first option that is not disabled
\* (none when the option of the component is the only one),
\* and _keyManager.change emits if that is another item than before, which
\* runs the subscriber that fits the active item into view.
OptionsTimer ==
    LET currentFirstOption == FirstOption(optionValues)
        first == <<getOptionsLengthOffset>>
        calls == /\ panel
                 /\ ActivatesFirstItem(previousFirstOption, currentFirstOption,
                                       activeItemIndex, activeItemStale)
        activates == calls /\ optionValues # {}
        changes == activates /\ (activeItemStale \/ activeItemIndex # first)
        idx == IF activates THEN first ELSE activeItemIndex
        onChange == IF changes /\ KeyManagerChangeSub \in subscriptions
                    THEN AdjustedScroll(scrollTop, idx)
                    ELSE [write |-> FALSE, value |-> scrollTop]
        direct == IF panel /\ ScrollsOnOptionsChanged(disableScrollToActiveOnOptionsChanged)
                  THEN AdjustedScroll(onChange.value, idx)
                  ELSE [write |-> FALSE, value |-> onChange.value]
    IN  /\ optionsTimers > 0
        /\ panel => widthTimers < MaxTimers
        /\ optionsTimers' = optionsTimers - 1
        /\ activeItemIndex' = idx
        /\ activeItemStale' = (activeItemStale /\ ~activates)
        /\ scrollTop' = direct.value
        /\ scrollBefore' = scrollTop
        /\ scrollWrites' = (IF onChange.write THEN 1 ELSE 0)
                           + (IF direct.write THEN 1 ELSE 0)
        /\ fitCalls' = (IF changes /\ KeyManagerChangeSub \in subscriptions
                        THEN 1 ELSE 0)
                       + (IF panel
                             /\ ScrollsOnOptionsChanged(disableScrollToActiveOnOptionsChanged)
                          THEN 1 ELSE 0)
        /\ widthTimers' = IF panel THEN widthTimers + 1 ELSE widthTimers
        /\ previousFirstOption' = currentFirstOption
        /\ observed' = [Observe("optionsTimer") EXCEPT
                           !.arg = IF calls THEN "setFirstItemActive" ELSE "",
                           !.handlers =
                               IF changes
                               THEN subscriptions \cap {KeyManagerChangeSub}
                               ELSE {}]
        /\ NoValueChange
        /\ NoSelection
        /\ UNCHANGED <<staticVars, optionValues, optionsLength, panel, initialized,
                       destroyed, subscribedValueChanges, errors, subscriptions,
                       matOptionDisabled, panelClass, openedChangePending, optionsAssigned,
                       focusTimers, inputFocused, inputWidthSet, accessorVars>>

\* setTimeout(() => { this.updateInputWidth(); }) runs.
WidthTimer ==
    /\ widthTimers > 0
    /\ widthTimers' = widthTimers - 1
    /\ inputWidthSet' = (inputWidthSet \/ panel)
    /\ observed' = Observe("widthTimer")
    /\ NoValueChange
    /\ NoScroll
    /\ NoSelection
    /\ UNCHANGED <<staticVars, optionValues, optionsLength, panel, activeItemIndex,
                   initialized, destroyed, subscribedValueChanges, errors,
                   subscriptions, matOptionDisabled, panelClass, openedChangePending,
                   optionsAssigned, previousFirstOption, activeItemStale,
                   optionsTimers, focusTimers, inputFocused, accessorVars>>

\* setTimeout(() => this._focus()) runs.
FocusTimer ==
    /\ focusTimers > 0
    /\ focusTimers' = focusTimers - 1
    /\ inputFocused' = (inputFocused \/ panel)
    /\ observed' = [Observe("focusTimer") EXCEPT
                       !.focusCalls = IF panel THEN 1 ELSE 0]
    /\ NoValueChange
    /\ NoScroll
    /\ NoSelection
    /\ UNCHANGED <<staticVars, optionValues, optionsLength, panel, activeItemIndex,
                   initialized, destroyed, subscribedValueChanges, errors,
                   subscriptions, matOptionDisabled, panelClass, openedChangePending,
                   optionsAssigned, previousFirstOption, activeItemStale,
                   optionsTimers, widthTimers, inputWidthSet, accessorVars>>

\* Mutation: Home and End are stopped whatever preventHomeEndKeyPropagation
\* says.
StopsKey_HomeEndAlways(event, preventHomeEnd) ==
    \/ event.key # "" /\ Len(event.key) = 1
    \/ event.keyCode >= A /\ event.keyCode <= Z
    \/ event.keyCode >= ZERO /\ event.keyCode <= NINE
    \/ event.keyCode = SPACE
    \/ event.keyCode = HOME \/ event.keyCode = END

\* The first test of _handleKeydown (lines 343-348).
StopsKey(event, preventHomeEnd) ==
    \/ event.key # "" /\ Len(event.key) = 1
    \/ event.keyCode >= A /\ event.keyCode <= Z
    \/ event.keyCode >= ZERO /\ event.keyCode <= NINE
    \/ event.keyCode = SPACE
    \/ preventHomeEnd /\ (event.keyCode = HOME \/ event.keyCode = END)

\* Mutation: Escape clears whatever the filter text is.
EscapeClears_AnyText(enabled, event, value) ==
    enabled /\ event.keyCode = ESCAPE

\* this.enableClearOnEscapePressed === true && event.keyCode === ESCAPE && this.value
EscapeClears(enabled, event, value) ==
    enabled /\ event.keyCode = ESCAPE /\ value # ""

\* A key goes down in the search input, which is in the open panel:
\* _handleKeydown(event).
Keydown ==
    \E event \in KeyEvents :
        LET focusLater == multiple /\ event.key # "" /\ event.keyCode = ENTER
            clears == EscapeClears(enableClearOnEscapePressed, event, formControlValue)
        IN  /\ initialized
            /\ ~destroyed
            /\ panel
            /\ focusLater => focusTimers < MaxTimers
            /\ focusTimers' = IF focusLater THEN focusTimers + 1 ELSE focusTimers
            /\ IF clears
               THEN /\ ValueChanges("", lastExternalInputValue)
                    /\ inputFocused' = TRUE
               ELSE /\ NoValueChange
                    /\ UNCHANGED inputFocused
            /\ observed' = [Observe("keydown") EXCEPT
                               !.arg = event.key,
                               !.keyCode = event.keyCode,
                               !.text = formControlValue,
                               !.marker = lastExternalInputValue,
                               !.handlers = IF clears THEN ValueChangesHandlers ELSE {},
                               !.changeCalls =
                                   IF clears
                                   THEN PropagateChange("", lastExternalInputValue,
                                                        changeSubscribers).calls
                                   ELSE {},
                               !.focusCalls = IF clears THEN 1 ELSE 0,
                               !.stopped = (StopsKey(event, preventHomeEndKeyPropagation)
                                            \/ clears)]
            /\ NoScroll
            /\ NoSelection
            /\ UNCHANGED <<staticVars, optionValues, optionsLength, panel,
                           activeItemIndex, initialized, destroyed,
                           subscribedValueChanges, errors, subscriptions,
                           matOptionDisabled, panelClass, openedChangePending, optionsAssigned,
                           previousFirstOption, activeItemStale, optionsTimers,
                           widthTimers, inputWidthSet, changeSubscribers,
                           endedSubscribers, onTouched>>

\* A click on the clear button, which the template renders while the text
\* is not empty (hideClearSearchButton and searching being false, their
\* defaults): _reset(true) empties the text and focuses the input.
ClearButton ==
    /\ initialized
    /\ ~destroyed
    /\ panel
    /\ formControlValue # ""
    /\ ValueChanges("", lastExternalInputValue)
    /\ inputFocused' = TRUE
    /\ observed' = [Observe("clear") EXCEPT
                       !.text = formControlValue,
                       !.marker = lastExternalInputValue,
                       !.handlers = ValueChangesHandlers,
                       !.changeCalls =
                           PropagateChange("", lastExternalInputValue,
                                           changeSubscribers).calls,
                       !.focusCalls = 1]
    /\ NoScroll
    /\ NoSelection
    /\ UNCHANGED <<staticVars, optionValues, optionsLength, panel,
                   activeItemIndex, initialized, destroyed,
                   subscribedValueChanges, errors, subscriptions,
                   matOptionDisabled, panelClass, openedChangePending, optionsAssigned,
                   previousFirstOption, activeItemStale, optionsTimers,
                   widthTimers, focusTimers, inputWidthSet, changeSubscribers,
                   endedSubscribers, onTouched>>

\* The events of keyup in the search input.
KeyupEvents == {event \in KeyEvents : event.keyCode \in {UP_ARROW, DOWN_ARROW, ENTER}}

\* matSelect._getAriaActiveDescendant() looked up in this._options (line
\* 368): the index of the active item of an open panel, <<>> when there is
\* none or it has left the list (findIndex gives -1).
AriaActiveDescendantIndex ==
    IF panel /\ HasActiveItem(activeItemIndex) /\ ~activeItemStale
             /\ activeItemIndex[1] < optionsLength
    THEN activeItemIndex
    ELSE <<>>

\* Mutation: the index announced is optionIndex + 1 whatever the offset.
getAriaIndex_AlwaysPlusOne(optionIndex) == optionIndex + 1

\* getAriaIndex(optionIndex)
getAriaIndex(optionIndex) ==
    IF getOptionsLengthOffset = 0 THEN optionIndex + 1 ELSE optionIndex

\* getAriaLength()
getAriaLength == optionsLength - getOptionsLengthOffset

\* _handleKeyup(event): on the release of an arrow key the active descendant
\* is announced with its index and the length (option is the set holding
\* its value, empty for the option of the component itself).  Before the
\* first openedChange this._options is undefined and the handler throws.
Keyup ==
    \E event \in KeyupEvents :
        LET index == AriaActiveDescendantIndex
            arrow == event.keyCode = UP_ARROW \/ event.keyCode = DOWN_ARROW
        IN  /\ initialized
            /\ ~destroyed
            /\ panel
            /\ observed' = [Observe("keyup") EXCEPT
                               !.arg = event.key,
                               !.keyCode = event.keyCode,
                               !.announced =
                                   IF arrow /\ optionsAssigned /\ index # <<>>
                                   THEN <<[option |-> OptionsAtIndex(index, optionValues),
                                           index |-> getAriaIndex(index[1]),
                                           length |-> getAriaLength]>>
                                   ELSE <<>>]
            /\ NoValueChange
            /\ NoScroll
            /\ NoSelection
            /\ UNCHANGED <<staticVars, optionValues, optionsLength, panel,
                           activeItemIndex, initialized, destroyed,
                           subscribedValueChanges, errors, subscriptions,
                           matOptionDisabled, panelClass, openedChangePending, optionsAssigned,
                           previousFirstOption, activeItemStale, optionsTimers,
                           widthTimers, focusTimers, inputFocused, inputWidthSet,
                           changeSubscribers, endedSubscribers, onTouched>>

\* The viewport state of a component whose panel has not been opened and
\* whose select has no options besides the one holding the component.
FitIdle ==
    /\ panel = FALSE
    /\ optionsLength = getOptionsLengthOffset
    /\ scrollTop = 0
    /\ activeItemIndex = <<>>
    /\ groupStarts = {}
    /\ optionHeight = 8
    /\ searchInputHeight = 0
    /\ fitCalls = 0
    /\ scrollBefore = 0
    /\ scrollWrites = 0

\* The component after its constructor: no subscription, nothing registered.
ComponentConstructed ==
    /\ initialized = FALSE
    /\ errors = {}
    /\ subscriptions = {}
    /\ matOptionDisabled = FALSE
    /\ matOptionClasses = {}
    /\ optionsAssigned = FALSE
    /\ AccessorIdle
    /\ Quiet

\* The component after its constructor in a select without panelClass.
Constructed ==
    /\ ComponentConstructed
    /\ panelClass = NoPanelClass

\* The component as constructed, in a host with any configuration.
Init ==
    /\ multiple \in BOOLEAN
    /\ hasNgControl \in BOOLEAN
    /\ refetched \in BOOLEAN
    /\ compareById \in IF refetched THEN BOOLEAN ELSE {FALSE}
    /\ alwaysRestoreSelectedOptionsMulti \in BOOLEAN
    /\ matOption = TRUE
    /\ ngControlValue \in IF multiple THEN {Arr(<<>>), Undefined} ELSE {Undefined}
    /\ optionValues = {}
    /\ formControlValue = ""
    /\ previousSelectedValues = Undefined
    /\ destroyed = FALSE
    /\ subscribedValueChanges = FALSE
    /\ lastChange = NoChange
    /\ onChangeCalls = <<>>
    /\ FitIdle
    /\ DefaultInputs
    /\ Constructed

Next ==
    \/ NgOnInit
    \/ NgOnDestroy
    \/ FilterTextInput
    \/ OptionsChange
    \/ SelectionChange

Spec == Init /\ [][Next]_vars

(***************************************************************************)
(* The value accessor (specification SpecAccessor).                        *)
(***************************************************************************)
InitAccessor ==
    /\ matOption \in BOOLEAN
    /\ MultiIdle
    /\ FitIdle
    /\ DefaultInputs
    /\ Constructed

NextAccessor ==
    \/ NgOnInit
    \/ NgOnDestroy
    \/ RegisterOnChange
    \/ RegisterOnTouched
    \/ WriteValue
    \/ FilterTextInput
    \/ Blur

SpecAccessor == InitAccessor /\ [][NextAccessor]_vars

(***************************************************************************)
(* The end of the component's life (specification SpecDestroy).            *)
(***************************************************************************)
\* registerOnChange(fn) in the lifetime of the component.
RegisterOnChangeAlive == ~destroyed /\ RegisterOnChange

\* writeValue(value) after ngOnDestroy.
WriteValueAfterDestroy == destroyed /\ WriteValue

\* matSelect._keyManager.change emits after ngOnDestroy.
KeyManagerChangeAfterDestroy == destroyed /\ KeyManagerChange

\* The component as constructed, in a single select with a control.
InitDestroy ==
    /\ multiple = FALSE
    /\ hasNgControl = TRUE
    /\ compareById = FALSE
    /\ refetched = FALSE
    /\ alwaysRestoreSelectedOptionsMulti = FALSE
    /\ matOption = TRUE
    /\ ngControlValue = Undefined
    /\ optionValues = {}
    /\ formControlValue = ""
    /\ previousSelectedValues = Undefined
    /\ destroyed = FALSE
    /\ subscribedValueChanges = FALSE
    /\ lastChange = NoChange
    /\ onChangeCalls = <<>>
    /\ FitIdle
    /\ DefaultInputs
    /\ Constructed

NextDestroy ==
    \/ NgOnInit
    \/ NgOnDestroy
    \/ RegisterOnChangeAlive
    \/ FilterTextInput
    \/ PanelOpens
    \/ PanelCloses
    \/ DeliverOpenedChange
    \/ ViewportResize
    \/ WriteValueAfterDestroy
    \/ OptionsChangeAfterDestroy
    \/ KeyManagerChangeAfterDestroy

SpecDestroy == InitDestroy /\ [][NextDestroy]_vars

(***************************************************************************)
(* Opening and closing the panel (specification SpecPanel).  The timer of  *)
(* delay(1) fires: an emission of openedChange that stays inside the delay *)
(* is delivered, hence the weak fairness of DeliverOpenedChange.           *)
(***************************************************************************)
InitPanel ==
    /\ matOption = TRUE
    /\ MultiIdle
    /\ FitIdle
    /\ noEntriesFoundLabel = TRUE
    /\ clearSearchInput \in BOOLEAN
    /\ disableInitialFocus \in BOOLEAN
    /\ enableClearOnEscapePressed = FALSE
    /\ preventHomeEndKeyPropagation = FALSE
    /\ disableScrollToActiveOnOptionsChanged = FALSE
    /\ Constructed

NextPanel ==
    \/ NgOnInit
    \/ NgOnDestroy
    \/ PanelOpens
    \/ PanelCloses
    \/ DeliverOpenedChange
    \/ FilterTextInput
    \/ RegisterOnChangeAlive

SpecPanel == InitPanel /\ [][NextPanel]_vars /\ WF_vars(DeliverOpenedChange)

(***************************************************************************)
(* Placement and the no-results state (specification SpecNoEntries).       *)
(***************************************************************************)
\* The component as constructed, inside an option or not, with a label for
\* the no-results message or none, in a single select with a control or not.
InitNoEntries ==
    /\ multiple = FALSE
    /\ hasNgControl \in BOOLEAN
    /\ compareById = FALSE
    /\ refetched = FALSE
    /\ alwaysRestoreSelectedOptionsMulti = FALSE
    /\ matOption \in BOOLEAN
    /\ ngControlValue = Undefined
    /\ optionValues = {}
    /\ formControlValue = ""
    /\ previousSelectedValues = Undefined
    /\ destroyed = FALSE
    /\ subscribedValueChanges = FALSE
    /\ lastChange = NoChange
    /\ onChangeCalls = <<>>
    /\ FitIdle
    /\ noEntriesFoundLabel \in BOOLEAN
    /\ clearSearchInput = TRUE
    /\ disableInitialFocus = FALSE
    /\ enableClearOnEscapePressed = FALSE
    /\ preventHomeEndKeyPropagation = FALSE
    /\ disableScrollToActiveOnOptionsChanged = FALSE
    /\ Constructed

NextNoEntries ==
    \/ NgOnInit
    \/ NgOnDestroy
    \/ PanelOpens
    \/ DeliverOpenedChange
    \/ FilterTextInput
    \/ OptionsChange
    \/ OptionsTimer
    \/ WidthTimer
    \/ ViewportResize

SpecNoEntries == InitNoEntries /\ [][NextNoEntries]_vars

(***************************************************************************)
(* Changes of the option list (specification SpecOptions).                 *)
(***************************************************************************)
\* The component as constructed inside a mat-option, with rows and a search
\* field of 48 pixels, scrolling on changes of the option list disabled or
\* not.
InitOptions ==
    /\ matOption = TRUE
    /\ MultiIdle
    /\ panel = FALSE
    /\ optionsLength = getOptionsLengthOffset
    /\ scrollTop = 0
    /\ activeItemIndex = <<>>
    /\ groupStarts = {}
    /\ optionHeight = 48
    /\ searchInputHeight = 48
    /\ fitCalls = 0
    /\ scrollBefore = 0
    /\ scrollWrites = 0
    /\ noEntriesFoundLabel = TRUE
    /\ clearSearchInput = TRUE
    /\ disableInitialFocus = FALSE
    /\ enableClearOnEscapePressed = FALSE
    /\ preventHomeEndKeyPropagation = FALSE
    /\ disableScrollToActiveOnOptionsChanged \in BOOLEAN
    /\ Constructed

NextOptions ==
    \/ NgOnInit
    \/ PanelOpens
    \/ DeliverOpenedChange
    \/ OptionsChange
    \/ OptionsTimer
    \/ WidthTimer
    \/ KeyManagerChange

SpecOptions == InitOptions /\ [][NextOptions]_vars

(***************************************************************************)
(* The deferred handler of a change of the option list, with a panel that  *)
(* opens and closes (specification SpecHandler).                           *)
(***************************************************************************)
NextHandler ==
    \/ NgOnInit
    \/ PanelOpens
    \/ PanelCloses
    \/ DeliverOpenedChange
    \/ OptionsChange
    \/ OptionsTimer
    \/ WidthTimer

SpecHandler == InitOptions /\ [][NextHandler]_vars

(***************************************************************************)
(* Keys in the search input (specification SpecKeys).                      *)
(***************************************************************************)
\* The component as constructed inside a mat-option of a single or multiple
\* select with a control, with any setting of the two keyboard inputs.
InitKeys ==
    /\ multiple \in BOOLEAN
    /\ hasNgControl = TRUE
    /\ compareById = FALSE
    /\ refetched = FALSE
    /\ alwaysRestoreSelectedOptionsMulti = FALSE
    /\ matOption = TRUE
    /\ ngControlValue = IF multiple THEN Arr(<<>>) ELSE Undefined
    /\ optionValues = {}
    /\ formControlValue = ""
    /\ previousSelectedValues = Undefined
    /\ destroyed = FALSE
    /\ subscribedValueChanges = FALSE
    /\ lastChange = NoChange
    /\ onChangeCalls = <<>>
    /\ FitIdle
    /\ noEntriesFoundLabel = TRUE
    /\ clearSearchInput = TRUE
    /\ disableInitialFocus = FALSE
    /\ enableClearOnEscapePressed \in BOOLEAN
    /\ preventHomeEndKeyPropagation \in BOOLEAN
    /\ disableScrollToActiveOnOptionsChanged = FALSE
    /\ Constructed

NextKeys ==
    \/ NgOnInit
    \/ NgOnDestroy
    \/ RegisterOnChangeAlive
    \/ PanelOpens
    \/ PanelCloses
    \/ DeliverOpenedChange
    \/ FilterTextInput
    \/ Keydown
    \/ FocusTimer
    \/ Blur

SpecKeys == InitKeys /\ [][NextKeys]_vars

(***************************************************************************)
(* The announcement of the active option (specification SpecAria).         *)
(***************************************************************************)
\* The component as constructed, inside a mat-option or not.
InitAria ==
    /\ matOption \in BOOLEAN
    /\ MultiIdle
    /\ FitIdle
    /\ DefaultInputs
    /\ Constructed

NextAria ==
    \/ NgOnInit
    \/ PanelOpens
    \/ DeliverOpenedChange
    \/ OptionsChange
    \/ OptionsTimer
    \/ WidthTimer
    \/ KeyManagerChange
    \/ Keyup

SpecAria == InitAria /\ [][NextAria]_vars

(***************************************************************************)
(* Clearing the text (specification SpecReset).                            *)
(***************************************************************************)
\* The component as constructed inside a mat-option of a single select,
\* clearing on Escape, clearing on close or not.
InitReset ==
    /\ matOption = TRUE
    /\ MultiIdle
    /\ FitIdle
    /\ noEntriesFoundLabel = TRUE
    /\ clearSearchInput \in BOOLEAN
    /\ disableInitialFocus = FALSE
    /\ enableClearOnEscapePressed = TRUE
    /\ preventHomeEndKeyPropagation = FALSE
    /\ disableScrollToActiveOnOptionsChanged = FALSE
    /\ Constructed

NextReset ==
    \/ NgOnInit
    \/ RegisterOnChangeAlive
    \/ WriteValue
    \/ FilterTextInput
    \/ PanelOpens
    \/ PanelCloses
    \/ DeliverOpenedChange
    \/ Keydown
    \/ ClearButton

SpecReset == InitReset /\ [][NextReset]_vars

(***************************************************************************)
(* The panel class (specification SpecPanelClass).                         *)
(***************************************************************************)
\* The component as constructed, inside a mat-option or not, in a select
\* with any binding of panelClass.
InitPanelClass ==
    /\ matOption \in BOOLEAN
    /\ MultiIdle
    /\ FitIdle
    /\ DefaultInputs
    /\ ComponentConstructed
    /\ panelClass \in PanelClassValues

NextPanelClass ==
    \/ NgOnInit
    \/ NgOnDestroy
    \/ PanelOpens
    \/ PanelCloses
    \/ DeliverOpenedChange
    \/ FilterTextInput

SpecPanelClass == InitPanelClass /\ [][NextPanelClass]_vars

(***************************************************************************)
(* Claims about the viewport fit (checked under SpecFit).                  *)
(***************************************************************************)
\* The most recent step was a call of the method that got past its guard.
FitRan == fitCalls >= 1 /\ panel /\ optionsLength > 0

\* floor((S + h)/R) - 1 <= i <= floor((S + h)/R) - 1 + visibleCount
ActiveRowInWindow(S) ==
    LET first == ((S + searchInputHeight) \div optionHeight) - 1
        count == (SELECT_PANEL_MAX_HEIGHT - searchInputHeight) \div optionHeight
    IN  first <= FitIndex /\ FitIndex <= first + count

\* The header and row heights for which the window of C1 contains the rows
\* the two branches scroll to.
WindowGeometry ==
    LET h == searchInputHeight
        R == optionHeight
        count == (SELECT_PANEL_MAX_HEIGHT - h) \div R
    IN  /\ h < 2 * R
        /\ 2 * h - SELECT_PANEL_MAX_HEIGHT < R
        /\ (h \div R) + count >= 1
        /\ ((2 * h - SELECT_PANEL_MAX_HEIGHT) \div R) + count >= 0

\* C1 as stated: after adjustScrollTopToFitActiveOptionIntoView, called with
\* a scroll offset >= 0, the scroll offset S satisfies
\* floor((S + h)/R) - 1 <= i <= floor((S + h)/R) - 1 + visibleCount.
C1_ActiveRowInWindow_AsStated ==
    (FitRan /\ scrollBefore >= 0) => ActiveRowInWindow(scrollTop)

\* C1 (amended): the same postcondition holds whenever h < 2R, 2h - H < R,
\* floor(h/R) + visibleCount >= 1 and floor((2h - H)/R) + visibleCount >= 0.
C1_ActiveRowInWindow ==
    (FitRan /\ scrollBefore >= 0 /\ WindowGeometry) => ActiveRowInWindow(scrollTop)

C1_Witness ==
    /\ FitRan
    /\ scrollBefore >= 0
    /\ WindowGeometry
    /\ scrollWrites = 1
    /\ scrollTop > scrollBefore
    /\ searchInputHeight < optionHeight

\* The heights for which a row scrolled to by one branch is not moved again
\* by the other.
StableGeometry ==
    LET h == searchInputHeight
        R == optionHeight
        H == SELECT_PANEL_MAX_HEIGHT
        count == (H - h) \div R
    IN  /\ (2 * h + R) \div (2 * R) >= 1 \/ count >= 2 \/ R = H - h
        /\ (2 * (2 * h - H) + R) \div (2 * R) < 0 \/ R = H - h

\* C2 as stated: a second call of adjustScrollTopToFitActiveOptionIntoView
\* with no state change in between leaves the scroll offset as the first
\* call produced it.
C2_Idempotent_AsStated ==
    (fitCalls = 2 /\ panel /\ optionsLength > 0) => scrollTop = scrollBefore

\* C2 (amended): the second call leaves the scroll offset unchanged whenever
\* (round(h/R) >= 1 or visibleCount >= 2 or R = H - h) and
\* (round((2h - H)/R) < 0 or R = H - h).
C2_Idempotent ==
    (fitCalls = 2 /\ panel /\ optionsLength > 0 /\ StableGeometry)
        => scrollTop = scrollBefore /\ scrollWrites <= 1

C2_Witness ==
    /\ fitCalls = 2
    /\ panel
    /\ optionsLength > 0
    /\ StableGeometry
    /\ scrollWrites = 1
    /\ scrollTop # 0

\* C3: the offset after the call is the reference function of the offset
\* before it: i*R if round((scroll + h)/R) - 1 >= i, else (i + 1)*R - (H - h)
\* if round((scroll + h)/R) - 1 + floor((H - h)/R) <= i; and H=256, h=56,
\* R=40, scroll=0, i=7 gives 120.
C3_ReferenceResult ==
    FitRan =>
        LET h == searchInputHeight
            R == optionHeight
            H == SELECT_PANEL_MAX_HEIGHT
            i == FitIndex
            visibleCount == (H - h) \div R
            firstVisible == ((2 * (scrollBefore + h) + R) \div (2 * R)) - 1
        IN  /\ firstVisible >= i => scrollTop = i * R
            /\ (firstVisible < i /\ firstVisible + visibleCount <= i)
                   => scrollTop = (i + 1) * R - (H - h)
            /\ (H = 256 /\ h = 56 /\ R = 40 /\ scrollBefore = 0 /\ i = 7)
                   => scrollTop = 120

C3_Witness ==
    /\ FitRan
    /\ fitCalls = 1
    /\ searchInputHeight = 56
    /\ optionHeight = 40
    /\ scrollBefore = 0
    /\ FitIndex = 7
    /\ scrollTop = 120

\* C4: when firstVisible < i < firstVisible + visibleCount the call writes
\* nothing and the scroll offset is unchanged.
C4_NoWriteInsideWindow ==
    FitRan =>
        LET h == searchInputHeight
            R == optionHeight
            visibleCount == (SELECT_PANEL_MAX_HEIGHT - h) \div R
            firstVisible == ((2 * (scrollBefore + h) + R) \div (2 * R)) - 1
        IN  (firstVisible < FitIndex /\ FitIndex < firstVisible + visibleCount)
                => scrollWrites = 0 /\ scrollTop = scrollBefore

C4_Witness ==
    /\ FitRan
    /\ fitCalls = 1
    /\ scrollWrites = 0
    /\ scrollTop = scrollBefore
    /\ scrollTop > 0
    /\ FitIndex > 0

(***************************************************************************)
(* Claims about the multi-select restoration (checked under Spec).         *)
(***************************************************************************)
\* The values held by a control value (none if it is no array).
SetOf(val) == {val.items[k] : k \in DOMAIN val.items}

\* The host's compareWith reports v and w equal.
ReportedEqual(v, w) == IF compareById THEN v.id = w.id ELSE v = w

\* The last step was a selection change of a multiple select, handled by
\* the subscriber of initMultipleHandling.
MultiChangeHandled == lastChange.handled /\ multiple /\ hasNgControl

\* The values of the previous selection P that are neither in the new
\* selection C nor among the rendered option values O.
Missing ==
    {p \in SetOf(lastChange.previous) :
        ~(\E v \in SetOf(lastChange.emitted) \cup optionValues : ReportedEqual(v, p))}

Value(n) == [id |-> n, ref |-> 1]

\* C5: with the restoration flag enabled and a non-empty filter text, the
\* selection written back to the host on a change from P to C with rendered
\* values O is C plus every value of P that is neither in C nor in O, and
\* it is written when there is such a value; P={a,b,c}, C={a}, O={a} gives
\* {a,b,c}.
C5_RestoredSelection ==
    (MultiChangeHandled /\ alwaysRestoreSelectedOptionsMulti /\ formControlValue # "")
        => /\ \A k \in DOMAIN onChangeCalls :
                  /\ onChangeCalls[k].isArray
                  /\ SetOf(onChangeCalls[k]) = SetOf(lastChange.emitted) \cup Missing
           /\ Missing # {} =>
                  /\ onChangeCalls # <<>>
                  /\ ngControlValue = onChangeCalls[Len(onChangeCalls)]
           /\ ( /\ lastChange.previous = Arr(<<Value(1), Value(2), Value(3)>>)
                /\ lastChange.emitted = Arr(<<Value(1)>>)
                /\ optionValues = {Value(1)} )
                  => ngControlValue = Arr(<<Value(1), Value(2), Value(3)>>)

C5_Witness ==
    /\ MultiChangeHandled
    /\ alwaysRestoreSelectedOptionsMulti
    /\ formControlValue # ""
    /\ lastChange.previous = Arr(<<Value(1), Value(2), Value(3)>>)
    /\ lastChange.emitted = Arr(<<Value(1)>>)
    /\ optionValues = {Value(1)}
    /\ onChangeCalls = <<Arr(<<Value(1), Value(2), Value(3)>>)>>

C7_DefaultRestoresWhileFiltering ==
    (MultiChangeHandled /\ ~alwaysRestoreSelectedOptionsMulti /\ formControlValue # "")
        => \A p \in Missing : p \in SetOf(ngControlValue)

\* C8: with alwaysRestoreSelectedOptionsMulti set, a previously selected
\* value missing from the new selection and from the rendered options is
\* re-added and written back, whatever the filter text.
C8_AlwaysRestores ==
    (MultiChangeHandled /\ alwaysRestoreSelectedOptionsMulti /\ Missing # {})
        => /\ onChangeCalls # <<>>
           /\ \A p \in Missing : p \in SetOf(ngControlValue)

\* C9: a previous value that compareWith reports equal to a value of the
\* new selection or to a rendered option value is never re-added, even if
\* it is another object: every value added behind the emitted selection is
\* reported different from all of them.
C9_ComparesWithCompareWith ==
    MultiChangeHandled =>
        /\ \A k \in DOMAIN ngControlValue.items :
               k > Len(lastChange.emitted.items) =>
                   ~(\E v \in SetOf(lastChange.emitted) \cup optionValues :
                         ReportedEqual(v, ngControlValue.items[k]))
        /\ \A c \in DOMAIN onChangeCalls : \A k \in DOMAIN onChangeCalls[c].items :
               k > Len(lastChange.emitted.items) =>
                   ~(\E v \in SetOf(lastChange.emitted) \cup optionValues :
                         ReportedEqual(v, onChangeCalls[c].items[k]))

C9_Witness ==
    /\ MultiChangeHandled
    /\ compareById
    /\ onChangeCalls # <<>>
    /\ \E p \in SetOf(lastChange.previous) :
           /\ p \notin SetOf(lastChange.emitted) \cup optionValues
           /\ \E v \in optionValues : ReportedEqual(v, p)
           /\ p \notin SetOf(ngControlValue)

\* C10: without a control object initMultipleHandling subscribes to nothing
\* and no selection is ever written back or stored, whatever happens later;
\* its error is logged exactly when the host is in multiple mode.
C10_NoControlNoHandling ==
    ~hasNgControl =>
        /\ ~subscribedValueChanges
        /\ ~lastChange.handled
        /\ onChangeCalls = <<>>
        /\ previousSelectedValues = Undefined
        /\ lastChange.event => ngControlValue = lastChange.emitted
        /\ (MultipleWithoutControl \in errors) <=> (initialized /\ multiple)

C10_Witness ==
    /\ ~hasNgControl
    /\ multiple
    /\ initialized
    /\ alwaysRestoreSelectedOptionsMulti
    /\ formControlValue # ""
    /\ lastChange.event
    /\ lastChange.emitted = Arr(<<Value(1)>>)
    /\ MultipleWithoutControl \in errors

(***************************************************************************)
(* Claims about the value accessor (checked under SpecAccessor).           *)
(***************************************************************************)
\* The callbacks of registerOnChange, each invoked with text.
AllInvokedWith(text) == {<<cb, text>> : cb \in changeSubscribers}

\* C11: whatever happened before, writeValue(V) leaves the filter text at V
\* and invokes no callback registered through registerOnChange.
C11_WriteValueSuppressed ==
    observed.op = "writeValue"
        => /\ formControlValue = observed.arg
           /\ observed.changeCalls = {}

\* A write of a text other than the current one and other than the last
\* written one, with a callback registered.
C11_Witness ==
    /\ observed.op = "writeValue"
    /\ changeSubscribers # {}
    /\ observed.arg # observed.text
    /\ observed.marker # <<>>
    /\ observed.marker # <<observed.arg>>

\* What an edit and a write leave: the callbacks invoked and the marked
\* value.
C12_EditState ==
    /\ observed.op = "writeValue" => lastExternalInputValue = <<observed.arg>>
    /\ observed.op = "input"
           => /\ observed.changeCalls =
                     IF <<observed.arg>> # observed.marker
                     THEN AllInvokedWith(observed.arg)
                     ELSE {}
              /\ lastExternalInputValue =
                     IF observed.changeCalls # {} THEN <<>> ELSE observed.marker

\* No other operation touches the marked value.
C12_EditStep ==
    observed'.op \notin {"writeValue", "input"}
        => lastExternalInputValue' = lastExternalInputValue

\* C12: a user edit to W invokes the registered callbacks with W exactly
\* when W differs from the externally written value that is still marked,
\* which is the V of the last writeValue(V) as long as no edit has been
\* propagated since; an edit to the marked value invokes nothing.
C12_EditPropagatedIfDifferent == [](C12_EditState) /\ [][C12_EditStep]_vars

\* An edit that differs from the marked value and is propagated.
C12_Witness ==
    /\ observed.op = "input"
    /\ observed.marker # <<>>
    /\ observed.marker # <<observed.arg>>
    /\ observed.changeCalls # {}

\* What a step does with the touched callback.
C13_BlurStep ==
    /\ observed'.op = "registerOnTouched" => onTouched' = observed'.callback
    /\ observed'.op # "registerOnTouched" => onTouched' = onTouched
    /\ observed'.op = "blur"
           => observed'.touchedCalls =
                  IF onTouched = NoCallback THEN <<>> ELSE <<onTouched>>

\* C13: every blur invokes the callback most recently passed to
\* registerOnTouched, once, whether the text has changed or not; before a
\* registration a blur invokes nothing.
C13_BlurInvokesTouchedOnce == [][C13_BlurStep]_vars

\* A blur with a registered callback, after an edit of the text.
C13_Witness ==
    /\ observed.op = "blur"
    /\ observed.touchedCalls # <<>>
    /\ observed.text # ""

ClosesToClear == observed.op = "close" /\ clearSearchInput /\ ~destroyed

\* The delayed handler of a close has run.
CloseHandled == observed.op = "closed"

\* A step in which the panel closes or the delayed handler of a close runs.
CloseStep == observed'.op \in {"close", "closed"}

\* C15: after the panel of a living component closes with clearSearchInput
\* true, the filter text becomes the empty string (when the delayed handler
\* runs) unless the component is destroyed first; with clearSearchInput
\* false neither the close nor its delayed handler changes the filter text.
C15_ClearOnClose ==
    /\ ClosesToClear ~> (formControlValue = "" \/ destroyed)
    /\ [](CloseHandled /\ clearSearchInput => formControlValue = "")
    /\ [][CloseStep /\ ~clearSearchInput
              => formControlValue' = formControlValue]_vars

\* The delayed handler of a close has cleared a text that was not empty.
C15_Witness ==
    /\ CloseHandled
    /\ clearSearchInput
    /\ observed.text # ""
    /\ formControlValue = ""

\* An open whose focusing is not disabled.
OpensToFocus == observed.op = "open" /\ ~disableInitialFocus

\* The step called focus() on the search input.
Focused == observed.focusCalls > 0

\* C16 as stated: every open with disableInitialFocus false is followed by
\* a focus of the search input.
C16_FocusOnOpen_AsStated == OpensToFocus ~> Focused

\* The focus() calls of the delayed handler of an open: one, if focusing is
\* not disabled and the panel is still rendered.
FocusCallsOfOpen == IF ~disableInitialFocus /\ panel THEN 1 ELSE 0

\* C16: after the panel of a living component opens with disableInitialFocus
\* false, the search input is focused (when the delayed handler runs) unless
\* the component is destroyed or the panel closes first; the delayed handler
\* of an open calls focus() once if disableInitialFocus is false and the
\* panel is still open, and not otherwise; the open itself, a close and the
\* delayed handler of a close call no focus() and focus nothing.
C16_FocusOnOpen ==
    /\ (OpensToFocus /\ ~destroyed) ~> (Focused \/ destroyed \/ ~panel)
    /\ [](observed.op = "opened" => observed.focusCalls = FocusCallsOfOpen)
    /\ [](observed.op \in {"open", "close", "closed"} => ~Focused)
    /\ [][CloseStep \/ ~Focused' => (inputFocused' => inputFocused)]_vars

\* The delayed handler of an open focuses the search input.
C16_Witness ==
    /\ observed.op = "opened"
    /\ Focused
    /\ inputFocused
    /\ ~destroyed

(***************************************************************************)
(* Claims about the placement and the no-results state (checked under      *)
(* SpecNoEntries).                                                         *)
(***************************************************************************)
\* C17: after ngOnInit of a component that is not inside a mat-option the
\* error is logged, no option is disabled and no class is ever added to an
\* option, and the subscriptions are made all the same: to openedChange
\* (delayed, and the first one, which sets up the option list), to the
\* no-results state, to the viewport ruler, to the list of options, and to
\* the control's valueChanges if the select has a control; inside a
\* mat-option, that option is disabled and no placement error is logged.
C17_MisplacementNotFatal ==
    /\ ~matOption => ~matOptionDisabled /\ matOptionClasses = {}
    /\ initialized
           => /\ NotInsideMatOption \in errors <=> ~matOption
              /\ matOptionDisabled <=> matOption
              /\ ContainsMatSelectSearch \in matOptionClasses <=> matOption
    /\ initialized /\ ~destroyed
           => /\ {OpenedChangeDelayed, ShowNoEntriesFoundSub, ViewportRulerChange,
                   OptionsListSub} \subseteq subscriptions
              /\ \/ OpenedChangeOnce \in subscriptions
                 \/ /\ optionsAssigned
                    /\ {KeyManagerChangeSub, OptionsChangesSub} \subseteq subscriptions
              /\ subscribedValueChanges <=> hasNgControl

\* A misplaced component, its panel opened, shows the no-results state
\* after an edit of the text.
C17_Witness ==
    /\ ~matOption
    /\ initialized
    /\ NotInsideMatOption \in errors
    /\ optionsAssigned
    /\ observed.op = "input"
    /\ observed.handlers # {}
    /\ showNoEntriesFound

\* C18: in the lifetime of the component the no-results state is on exactly
\* when noEntriesFoundLabel is set, the filter text is not empty and the
\* number of options the component counts (those of the list it was given
\* when the panel first opened, none before) equals the offset (1 inside a
\* mat-option, 0 otherwise), in particular after every change of the text
\* or of the list; the class on the mat-option follows it; before the first
\* change of the text the state is off.
C18_NoEntriesFound ==
    /\ (initialized /\ ~destroyed)
           => /\ showNoEntriesFound
                     <=> /\ noEntriesFoundLabel
                         /\ formControlValue # ""
                         /\ OptionsLengthSeen(optionsAssigned, optionsLength)
                                = getOptionsLengthOffset
              /\ NoEntriesFoundClass \in matOptionClasses
                     <=> (matOption /\ showNoEntriesFound)
    /\ ~valueEmitted => ~showNoEntriesFound

\* Inside a mat-option, the last other option leaves the list while the
\* text is not empty: the state is on.
C18_Witness ==
    /\ matOption
    /\ ~destroyed
    /\ observed.op = "optionsChange"
    /\ optionsAssigned
    /\ optionValues = {}
    /\ showNoEntriesFound

(***************************************************************************)
(* Claims about changes of the option list (checked under SpecOptions).    *)
(***************************************************************************)
\* The deferred handler of a change of the option list runs in this step.
OptionsHandlerStep ==
    /\ optionsTimers' < optionsTimers
    /\ observed'.op = "optionsTimer"

\* C19: with disableScrollToActiveOnOptionsChanged true, the handler of a
\* change of the option list writes no scroll offset of the panel, also when
\* it makes the first item active.
C19_NoScrollOnOptionsChanged ==
    [][OptionsHandlerStep /\ disableScrollToActiveOnOptionsChanged
           => scrollWrites' = 0]_vars

(***************************************************************************)
(* Claims about the keys (checked under SpecKeys).                         *)
(***************************************************************************)
\* The last step was an Escape keydown in the search input.
EscapeKeydown == observed.op = "keydown" /\ observed.arg = "Escape"

\* C20: an Escape keydown with enableClearOnEscapePressed true and a filter
\* text that is not empty empties the text, focuses the input once and
\* stops the propagation of the event, and the panel is still open; with
\* an empty text, or with enableClearOnEscapePressed false, it changes no
\* text, focuses nothing and does not stop the propagation, so that the
\* event reaches the host.
C20_EscapeHandling ==
    EscapeKeydown
        => IF enableClearOnEscapePressed /\ observed.text # ""
           THEN /\ formControlValue = ""
                /\ observed.focusCalls = 1
                /\ inputFocused
                /\ observed.stopped
                /\ panel
           ELSE /\ formControlValue = observed.text
                /\ observed.focusCalls = 0
                /\ ~observed.stopped

\* Escape has emptied a filter text and the callbacks of registerOnChange
\* were told.
C20_Witness ==
    /\ EscapeKeydown
    /\ enableClearOnEscapePressed
    /\ observed.text # ""
    /\ formControlValue = ""
    /\ observed.stopped
    /\ observed.changeCalls # {}

\* The last step was a keydown in the search input.
KeydownSeen == observed.op = "keydown"

\* The key of the event is one character.
SingleCharacterKey == observed.arg # "" /\ Len(observed.arg) = 1

\* The key code of the event is that of a letter, of a digit or of Space.
LetterDigitOrSpace ==
    \/ observed.keyCode \in A..Z
    \/ observed.keyCode \in ZERO..NINE
    \/ observed.keyCode = SPACE

\* C21: a keydown of a single-character key, of a letter A-Z, of a digit
\* 0-9 or of Space has its propagation stopped; one of Home or End has it
\* stopped exactly when preventHomeEndKeyPropagation is true; one of
\* ArrowUp, ArrowDown or Enter never has.
C21_KeyPropagation ==
    KeydownSeen
        => /\ SingleCharacterKey \/ LetterDigitOrSpace => observed.stopped
           /\ observed.arg \in {"Home", "End"}
                  => (observed.stopped <=> preventHomeEndKeyPropagation)
           /\ observed.arg \in {"ArrowUp", "ArrowDown", "Enter"}
                  => ~observed.stopped

\* End goes down with preventHomeEndKeyPropagation true and is stopped.
C21_Witness ==
    /\ KeydownSeen
    /\ observed.arg = "End"
    /\ preventHomeEndKeyPropagation
    /\ observed.stopped

\* The last step was a keyup that announced an option.
Announced == observed.op = "keyup" /\ observed.announced # <<>>

\* C22: when the release of an arrow key announces an option other than the
\* one holding the component, the index announced lies in 1..length, and the
\* length announced is the number of the other options, inside a mat-option
\* or not.
C22_AriaIndexInRange ==
    Announced
        => LET said == observed.announced[1]
           IN  /\ said.length = Cardinality(optionValues)
               /\ said.option # {} => 1 <= said.index /\ said.index <= said.length

\* Inside a mat-option, the last of several options is announced.
C22_Witness ==
    /\ Announced
    /\ matOption
    /\ observed.announced[1].option # {}
    /\ observed.announced[1].length > 1
    /\ observed.announced[1].index = observed.announced[1].length

\* Outside a mat-option, the first option is announced.
C22_WitnessOutside ==
    /\ Announced
    /\ ~matOption
    /\ observed.announced[1].index = 1

\* C23: a call of adjustScrollTopToFitActiveOptionIntoView writes the scroll
\* offset at most once, and not at all (the offset stays) when the select
\* has no options or no panel.
C23_AtMostOneWrite ==
    fitCalls >= 1
        => /\ scrollWrites <= 1
           /\ (optionsLength = 0 \/ ~panel)
                  => scrollWrites = 0 /\ scrollTop = scrollBefore

\* The method was called in a select with options and no panel, with a
\* header as high as a row, where the first branch would have written.
C23_Witness ==
    /\ fitCalls >= 1
    /\ ~panel
    /\ optionsLength > 0
    /\ searchInputHeight = optionHeight
    /\ scrollWrites = 0

\* The method was called in a select with a panel and no options.
C23_WitnessNoOptions ==
    /\ fitCalls >= 1
    /\ panel
    /\ optionsLength = 0
    /\ scrollWrites = 0

\* activeItemIndex + groupLabelCount, less one inside a mat-option, a
\* missing activeItemIndex counting as 0.
RowFitted ==
    LET active == IF activeItemIndex = <<>> THEN 0 ELSE activeItemIndex[1]
    IN  active + countGroupLabelsBeforeOption(active, groupStarts)
        - (IF matOption THEN 1 ELSE 0)

\* C24: the row the call fits into view is activeItemIndex + groupLabelCount
\* - 1 inside a mat-option and activeItemIndex + groupLabelCount outside, a
\* missing activeItemIndex counting as 0: the offset after the call is the
\* one the two branches give for that row.
C24_RowFitted ==
    FitRan =>
        LET h == searchInputHeight
            R == optionHeight
            H == SELECT_PANEL_MAX_HEIGHT
            visibleCount == (H - h) \div R
            firstVisible == ((2 * (scrollBefore + h) + R) \div (2 * R)) - 1
        IN  IF firstVisible >= RowFitted
            THEN scrollWrites = 1 /\ scrollTop = RowFitted * R
            ELSE IF firstVisible + visibleCount <= RowFitted
                 THEN scrollWrites = 1 /\ scrollTop = (RowFitted + 1) * R - (H - h)
                 ELSE scrollWrites = 0 /\ scrollTop = scrollBefore

\* Inside a mat-option, with groups, the key manager has no active item and
\* row 0 is scrolled to from further down.
C24_Witness ==
    /\ FitRan
    /\ matOption
    /\ groupStarts # {}
    /\ activeItemIndex = <<>>
    /\ scrollBefore > 0
    /\ scrollWrites = 1
    /\ scrollTop = 0

\* Outside a mat-option, the last option of the second group is scrolled to.
C24_WitnessOutside ==
    /\ FitRan
    /\ ~matOption
    /\ groupStarts # {}
    /\ activeItemIndex = <<5>>
    /\ scrollWrites = 1
    /\ scrollTop = 8 * optionHeight - (SELECT_PANEL_MAX_HEIGHT - searchInputHeight)

\* The last call wrote in its first branch (the row is at or before the
\* first visible row), from an offset >= 0 and for a row >= 0.
WroteInFirstBranch ==
    /\ FitRan
    /\ scrollWrites = 1
    /\ scrollBefore >= 0
    /\ FitIndex >= 0
    /\ ((2 * (scrollBefore + searchInputHeight) + optionHeight)
            \div (2 * optionHeight)) - 1 >= FitIndex

\* The last call wrote in its second branch (the row is at or after the
\* last visible row), from an offset >= 0 and for a row >= 0.
WroteInSecondBranch ==
    /\ FitRan
    /\ scrollWrites = 1
    /\ scrollBefore >= 0
    /\ FitIndex >= 0
    /\ ((2 * (scrollBefore + searchInputHeight) + optionHeight)
            \div (2 * optionHeight)) - 1 < FitIndex

\* The header is at most half a row high.
LowHeader == 2 * searchInputHeight <= optionHeight

\* 2(H - 2h) <= (2 visibleCount - 1) R
FullWindow ==
    LET h == searchInputHeight
        R == optionHeight
        H == SELECT_PANEL_MAX_HEIGHT
    IN  2 * (H - 2 * h) <= (2 * ((H - h) \div R) - 1) * R

\* C25 as stated: a write of the first branch does not raise the scroll
\* offset and a write of the second branch does not lower it, for every
\* header height <= H, row height > 0, offset >= 0 and row >= 0.
C25_ScrollDirection_AsStated ==
    /\ WroteInFirstBranch => scrollTop <= scrollBefore
    /\ WroteInSecondBranch => scrollTop >= scrollBefore

\* C25 (amended): a write of the first branch does not raise the scroll
\* offset when 2h <= R, and a write of the second branch does not lower it
\* when 2(H - 2h) <= (2 visibleCount - 1) R.
C25_ScrollDirection ==
    /\ WroteInFirstBranch /\ LowHeader => scrollTop <= scrollBefore
    /\ WroteInSecondBranch /\ FullWindow => scrollTop >= scrollBefore

\* The second branch scrolled down past a header as high as a row.
C25_Witness ==
    /\ WroteInSecondBranch
    /\ FullWindow
    /\ searchInputHeight = 48
    /\ optionHeight = 48
    /\ scrollTop > scrollBefore

\* The first branch scrolled up under a low header.
C25_WitnessUp ==
    /\ WroteInFirstBranch
    /\ LowHeader
    /\ searchInputHeight > 0
    /\ scrollTop < scrollBefore

\* The values of the previous selection that the user deselected while
\* their options were rendered: absent from the new selection, present
\* among the rendered option values.
DeselectedWhileRendered ==
    {p \in SetOf(lastChange.previous) :
        /\ ~(\E v \in SetOf(lastChange.emitted) : ReportedEqual(v, p))
        /\ \E v \in optionValues : ReportedEqual(v, p)}

\* C26: during filtering with restoration enabled, a previous value absent
\* from the new selection and present among the rendered option values is
\* not re-added (to the host's selection, to a value written back, or to
\* the stored previous selection), and when no value is re-added nothing is
\* written back to the host.
C26_DeselectedStaysDeselected ==
    (MultiChangeHandled /\ alwaysRestoreSelectedOptionsMulti /\ formControlValue # "")
        => /\ \A p \in DeselectedWhileRendered :
                  /\ p \notin SetOf(ngControlValue)
                  /\ p \notin SetOf(previousSelectedValues)
                  /\ \A k \in DOMAIN onChangeCalls : p \notin SetOf(onChangeCalls[k])
           /\ ngControlValue.items = lastChange.emitted.items => onChangeCalls = <<>>

\* The user deselected a rendered option while another previous value,
\* not rendered, was restored.
C26_Witness ==
    /\ MultiChangeHandled
    /\ alwaysRestoreSelectedOptionsMulti
    /\ formControlValue # ""
    /\ DeselectedWhileRendered # {}
    /\ Missing # {}
    /\ onChangeCalls # <<>>

\* The user deselected a rendered option and nothing was written back.
C26_WitnessNoWriteBack ==
    /\ MultiChangeHandled
    /\ alwaysRestoreSelectedOptionsMulti
    /\ formControlValue # ""
    /\ DeselectedWhileRendered # {}
    /\ SetOf(lastChange.emitted) # {}
    /\ onChangeCalls = <<>>

\* The key manager has an active item and it is in the option list.
ActiveItemInList ==
    /\ activeItemIndex # <<>>
    /\ activeItemIndex[1] >= 0
    /\ ~activeItemStale

\* The first option besides the component's own is the one stored as
\* previousFirstOption.
FirstOptionUnchanged == previousFirstOption = FirstOption(optionValues)

\* C27: when the deferred handler of a change of the option list runs with
\* the panel open, the first option equal to the stored previous first
\* option and the active item still in the list, it does not call
\* setFirstItemActive and the active item stays the same.
C27_AppendKeepsActiveItem ==
    [][OptionsHandlerStep /\ panel /\ FirstOptionUnchanged /\ ActiveItemInList
           => /\ observed'.arg # "setFirstItemActive"
              /\ activeItemIndex' = activeItemIndex
              /\ activeItemStale' = activeItemStale]_vars

\* The handler ran without a call of setFirstItemActive and the active item
\* is an option behind the first of several.
C27_Witness ==
    /\ observed.op = "optionsTimer"
    /\ observed.arg = ""
    /\ panel
    /\ FirstOptionUnchanged
    /\ ActiveItemInList
    /\ Cardinality(optionValues) >= 2
    /\ activeItemIndex[1] > getOptionsLengthOffset

\* C28: when the deferred handler runs with the panel open, it calls
\* setFirstItemActive, which makes the first option active if there is one,
\* if the first option differs from the stored previous first option, or
\* there is no active item, or the active item has left the list; when it
\* runs with the panel closed, the active item and the scroll offset stay
\* and the stored previous first option becomes the current first option.
C28_FirstItemMadeActive ==
    [][OptionsHandlerStep
           => /\ (panel /\ (~FirstOptionUnchanged \/ ~ActiveItemInList))
                     => /\ observed'.arg = "setFirstItemActive"
                        /\ optionValues # {}
                               => /\ activeItemIndex' = <<getOptionsLengthOffset>>
                                  /\ ~activeItemStale'
              /\ ~panel
                     => /\ observed'.arg = ""
                        /\ activeItemIndex' = activeItemIndex
                        /\ activeItemStale' = activeItemStale
                        /\ scrollTop' = scrollTop
                        /\ scrollWrites' = 0
                        /\ previousFirstOption' = FirstOption(optionValues)]_vars

\* The handler called setFirstItemActive for the option that is still the
\* first one: the active item had left the list or there was none.
C28_Witness ==
    /\ observed.op = "optionsTimer"
    /\ observed.arg = "setFirstItemActive"
    /\ panel
    /\ optionValues # {}
    /\ activeItemIndex = <<getOptionsLengthOffset>>
    /\ scrollBefore = scrollTop

\* The handler ran with the panel closed: there are options, none is
\* active, and the first is stored.
C28_WitnessClosed ==
    /\ observed.op = "optionsTimer"
    /\ ~panel
    /\ optionValues # {}
    /\ activeItemIndex = <<>>
    /\ previousFirstOption = FirstOption(optionValues)

\* No externally written value is marked for suppression.
MarkerCleared == lastExternalInputValue = <<>>

\* An edit found the marker cleared and callbacks registered: it invoked
\* them all with the text typed.
C29_EditState ==
    (observed.op = "input" /\ observed.marker = <<>>)
        => observed.changeCalls = AllInvokedWith(observed.arg)

\* A propagated edit clears the marker, and only writeValue sets it again.
C29_EditStep ==
    /\ (observed'.op = "input" /\ observed'.changeCalls # {}) => MarkerCleared'
    /\ (MarkerCleared /\ observed'.op # "writeValue") => MarkerCleared'

ResetSeen ==
    \/ observed.op = "closed" /\ clearSearchInput
    \/ /\ observed.op = "keydown"
       /\ observed.keyCode = ESCAPE
       /\ enableClearOnEscapePressed
       /\ observed.text # ""
    \/ observed.op = "clear"

\* C30: a clearing of the text through _reset leaves the text empty and
\* invokes every registered change callback with "", unless "" is the value
\* marked as last written from outside, in which case it invokes none; so
\* it does when the text was empty before.
C30_ResetPropagated ==
    ResetSeen
        => /\ formControlValue = ""
           /\ observed.changeCalls =
                  IF observed.marker = <<"">> THEN {} ELSE AllInvokedWith("")
           /\ observed.changeCalls # {} => MarkerCleared

\* The panel closed on an empty text and the callbacks were invoked.
C30_Witness ==
    /\ observed.op = "closed"
    /\ clearSearchInput
    /\ observed.text = ""
    /\ observed.changeCalls # {}

\* The clear button was clicked while a value written from outside was
\* marked, and the callbacks were invoked.
C30_WitnessButton ==
    /\ observed.op = "clear"
    /\ observed.marker # <<>>
    /\ observed.changeCalls # {}

\* Escape cleared the text and the callbacks were invoked.
C30_WitnessEscape ==
    /\ observed.op = "keydown"
    /\ observed.keyCode = ESCAPE
    /\ observed.text # ""
    /\ observed.changeCalls # {}

\* The panel closed after writeValue("") and no callback was invoked
\* although one is registered.
C30_WitnessSuppressed ==
    /\ observed.op = "closed"
    /\ clearSearchInput
    /\ observed.marker = <<"">>
    /\ changeSubscribers # {}
    /\ observed.changeCalls = {}

(***************************************************************************)
(* Claims about the panel class (checked under SpecPanelClass).            *)
(***************************************************************************)
\* The classes the panel gets from a value of panelClass (the reading of
\* ngClass): the text, the items, the entries of a Set, the keys of a class
\* map whose value is truthy.
PanelClasses(value) ==
    IF value.kind = "string"
    THEN {value.text} \ {""}
    ELSE IF value.kind = "array"
         THEN {value.items[k] : k \in DOMAIN value.items}
         ELSE IF value.kind = "set"
              THEN value.entries
              ELSE IF value.kind = "map"
                   THEN value.truthy
                   ELSE {}

\* ngOnInit runs in this step.
NgOnInitStep == ~initialized /\ initialized'

\* What ngOnInit makes of an array, a string, a class map and an unset
\* value.
PanelClassOfListedKinds ==
    /\ panelClass.kind = "array"
           => panelClass' = PanelClassArray(Append(panelClass.items, SearchPanelClass))
    /\ (panelClass.kind = "string" /\ panelClass.text # "")
           => panelClass' = PanelClassArray(<<panelClass.text, SearchPanelClass>>)
    /\ panelClass.kind = "map"
           => /\ panelClass'.kind = "map"
              /\ panelClass'.truthy = panelClass.truthy \cup {SearchPanelClass}
    /\ (panelClass.kind = "undefined" \/ panelClass = PanelClassString(""))
           => panelClass' = PanelClassString(SearchPanelClass)

\* C31: ngOnInit adds 'mat-select-search-panel' to the classes of the
\* host's panel and keeps every class configured before: an array gains the
\* entry, a string becomes the list of the old and the new class, a class
\* map gains the key with value true, an unset value becomes the class
\* name.
C31_PanelClassAdded ==
    [][NgOnInitStep
           => /\ SearchPanelClass \in PanelClasses(panelClass')
              /\ PanelClasses(panelClass) \subseteq PanelClasses(panelClass')
              /\ PanelClassOfListedKinds]_vars

(***************************************************************************)
(* Further claims about multi-select restoration (checked under Spec).     *)
(***************************************************************************)
\* C32: a write-back of the augmented selection does not cascade: the
\* selection change it makes the host emit restores nothing and writes
\* nothing back, so a host selection change causes at most one write-back,
\* after which the control and the stored previous selection both hold the
\* value written.
C32_NoCascade ==
    lastChange.handled
        => /\ Len(onChangeCalls) <= 1
           /\ onChangeCalls # <<>>
                  => /\ ngControlValue = onChangeCalls[1]
                     /\ previousSelectedValues = onChangeCalls[1]

\* Two values were restored by one write-back.
C32_Witness ==
    /\ MultiChangeHandled
    /\ Len(onChangeCalls) = 1
    /\ Cardinality(Missing) = 2
    /\ Len(ngControlValue.items) = Len(lastChange.emitted.items) + 2

\* C33 as stated: after the handler has handled a selection change of the
\* host, in multiple or single mode, restoring or not, the stored
\* previousSelectedValues equals the selection that now holds for the host:
\* the emitted one, or the augmented one when values were restored.
C33_PreviousIsCurrent_AsStated ==
    lastChange.handled
        => /\ previousSelectedValues = ngControlValue
           /\ onChangeCalls = <<>> => previousSelectedValues = lastChange.emitted

\* The handler took an emitted value that is no array for the empty array:
\* multiple mode, restoration enabled, a filter text, and an array stored
\* before.
EmittedTakenAsEmpty ==
    /\ multiple
    /\ alwaysRestoreSelectedOptionsMulti
    /\ formControlValue # ""
    /\ lastChange.previous.isArray
    /\ ~lastChange.emitted.isArray

\* C33 (amended): the same, except that an emitted value that is no array
\* is stored as the empty array, when nothing is restored, by the handler
\* of a multiple select with restoration enabled, a filter text and an
\* array stored before.
C33_PreviousIsCurrent ==
    lastChange.handled
        => IF onChangeCalls # <<>>
           THEN /\ previousSelectedValues = ngControlValue
                /\ previousSelectedValues = onChangeCalls[Len(onChangeCalls)]
           ELSE /\ ngControlValue = lastChange.emitted
                /\ previousSelectedValues =
                       IF EmittedTakenAsEmpty THEN Arr(<<>>) ELSE lastChange.emitted

\* A restoring change: the augmented selection is stored.
C33_Witness ==
    /\ MultiChangeHandled
    /\ onChangeCalls # <<>>
    /\ previousSelectedValues = ngControlValue
    /\ previousSelectedValues # lastChange.emitted

\* A change in single mode: the emitted value is stored.
C33_WitnessSingle ==
    /\ lastChange.handled
    /\ ~multiple
    /\ lastChange.emitted # Undefined
    /\ previousSelectedValues = lastChange.emitted

\* An emitted value that is no array is stored as the empty array.
C33_WitnessEmpty ==
    /\ lastChange.handled
    /\ EmittedTakenAsEmpty
    /\ onChangeCalls = <<>>
    /\ previousSelectedValues = Arr(<<>>)
    /\ ngControlValue = Undefined

====
